---- MODULE Spec2Model ----
(***************************************************************************)
(* Simpleboot loader (tomaka/redshirt, kernel-standalone-builder):         *)
(* a model of the loader entry point (_start / main), the file reader's    *)
(* key-press cancellation, the SMP start in fw_fini and the page-map       *)
(* builder fw_map, for the four firmware variants.                         *)
(***************************************************************************)
EXTENDS Integers, Sequences, FiniteSets, TLC

(***************************************************************************)
(* Bounds of the model                                                     *)
(***************************************************************************)
\* largest number of sectors (blocks on UEFI) one fw_read call is asked for
MaxBlocks == 2
\* largest number of PT_LOAD segments / PE sections of a kernel file
MaxSegs == 1
\* largest number of module lines of the configuration
MaxMods == 1
\* number of key presses the user makes during one boot
MaxKeys == 1
\* number of application processors listed in the MADT besides the BSP
NumAPs == 2
\* cap of the millisecond counter of the first alive-flag poll
MaxWait == 252
\* cap of the number of turns an AArch64 AP makes in its spin loop
MaxSpin == 2
\* largest number of segments mapped by fw_loadseg in one boot
MaxMaps == 2
\* largest p_memsz of a mapped segment, in pages
MaxPages == 2

(***************************************************************************)
(* Program constants                                                       *)
(***************************************************************************)
\* for(a = 250; ...; a--) sleep(1): the alive-flag poll budget
PollBudget == 250

Firmwares == {"BIOS", "UEFI", "RPI", "CB"}
\* the variants with the x86 INIT/SIPI start-up (loader_cb.c models its x86 build)
X86 == {"BIOS", "UEFI", "CB"}
KernelModes == {"MB32", "MB64", "LIN", "VBR"}
\* the low-memory words the BSP publishes for the APs (memory layout comments)
GDT == 1296
IDT == 1312
PT_ROOT == 1328
SEM == 1336
TAGS == 1344
LAPIC == 1360
ALIVE == 1368
SCTLR == 1288
MAIR == 1304
TCR == 1312
TTBR0 == 1320
TTBR1 == 1328
\* values rdtsc may leave in the 32-bit scratch variable a
TscLow == {1, 2}

VARIABLES
    fw,         \* firmware variant the loader was built for / booted on
    pc,         \* position of the BSP in _start
    bkp,        \* backup mode flag
    rq,         \* cancel request flag, set when a key press is detected
    key,        \* a key is waiting in the keyboard controller / UART / ConIn
    nkeys,      \* key presses made so far
    rd,         \* the fw_read call in progress
    rpc,        \* where the BSP continues when fw_read returns
    kern,       \* what the kernel file of this pass is like
    seg,        \* segments loaded so far in fw_loadkernel
    mods,       \* module lines handled so far in fw_loadmodules
    smp,        \* multicore requested
    nagain,     \* number of times the configuration phase was re-entered
    bsp,        \* BSP's SMP start-up state in fw_fini
    ap,         \* state of every application processor
    mem,        \* the shared low-memory words and the MBI
    hist        \* history: words the APs stored to (apw), semaphore published
                \* (pub), words the BSP stored after that (post), how
                \* backup mode was entered (via), and whether in this pass a
                \* read for the kernel or a module ended early or a segment
                \* was left out with rq set (cut)
VARIABLES
    ptm,        \* page-table memory: the entries stored since fw_init
    file_buf,   \* BIOS: the bump pointer the loader allocates from
    heap,       \* UEFI: the next page AllocatePages hands out
    calls       \* the fw_map calls made by fw_loadseg so far
VARIABLES
    fwmap,      \* the memory ranges the firmware reports (E820, GetMemoryMap,
                \* coreboot tables; on the Raspberry Pi the mailbox answer)
    memmap,     \* the loader's Multiboot2 memory map (empty: memmap is NULL)
    ram,        \* top of RAM
    kfile,      \* the headers of the kernel file
    kernel_entry, \* the recorded entry point
    ldlog       \* the fw_loadseg calls fw_loadkernel made so far
VARIABLES
    hw,         \* what the machine has: system tables, framebuffer, EDID
    tags_buf,   \* start of the Multiboot2 information, 0 for NULL
    tags_ptr,   \* where the next tag goes, 0 for NULL
    tagmem,     \* the words stored in the tag buffers
    initrd,     \* address of the first module tag, 0 for NULL
    zero_page,  \* the Linux zero page (at = 0: not allocated)
    modlist,    \* history: the modules loaded in this pass
    dsdt_ptr    \* the replacement DSDT, 0 for NULL
VARIABLES
    conf,       \* the configuration text, as lines of words
    parsed      \* what fw_loadconfig and fw_loadmodules made of it
VARIABLES
    fadt        \* the FADT the ACPI tag leads to
VARIABLES
    vol,        \* the FAT32 volume
    fr          \* the state of the file reader
VARIABLES
    dtb,        \* the memory from dtb_base on, byte by byte
    dt          \* the locals of fw_fini's device tree patch
VARIABLES
    bsmem,      \* the pages the UEFI firmware has given out
    ptrs        \* the loader's record of them: ptrs[0 .. nptr - 1]

vars == <<fw, pc, bkp, rq, key, nkeys, rd, rpc, kern, seg, mods, smp,
          nagain, bsp, ap, mem, hist, ptm, file_buf, heap, calls,
          fwmap, memmap, ram, kfile, kernel_entry, ldlog,
          hw, tags_buf, tags_ptr, tagmem, initrd, zero_page, modlist,
          dsdt_ptr, conf, parsed, fadt, vol, fr, dtb, dt,
          bsmem, ptrs>>

bootvars == <<pc, bkp, rq, key, nkeys, rd, rpc, kern, seg, mods, smp,
              nagain, bsp, ap, mem, hist>>
mapvars == <<ptm, file_buf, heap, calls>>
loadvars == <<fwmap, memmap, ram, kfile, kernel_entry, ldlog>>
mbivars == <<hw, tags_buf, tags_ptr, tagmem, initrd, zero_page, modlist,
            dsdt_ptr>>
cfgvars == <<conf, parsed>>
acpivars == <<fadt>>
fatvars == <<vol, fr>>
dtbvars == <<dtb, dt>>
efivars == <<bsmem, ptrs>>
\* what the file reader, modelled on its own, leaves alone besides
restFat == <<dtbvars, efivars>>
\* what the boot sequence, seen from _start, leaves alone
auxvars == <<mapvars, loadvars, mbivars, cfgvars, acpivars, fatvars,
    restFat>>
\* what the parts of the loader modelled on their own leave alone
restMap == <<loadvars, mbivars, cfgvars, acpivars, fatvars,
    restFat>>
restLoad == <<mbivars, cfgvars, acpivars, fatvars,
    restFat>>
restMbi == <<cfgvars, acpivars, fatvars,
    restFat>>

APs == 1..NumAPs

NoRead == [req |-> 0, got |-> 0, keyed |-> FALSE, after |-> 0]
NoKernel == [mode |-> "MB64", entry |-> 0, nseg |-> 0, nmod |-> 0]

\* an AP before it is started: held in reset (x86) or in the firmware's
\* spin table loop (Raspberry Pi)
NoAp == [st |-> "wfs", x2 |-> 0]

Terminal == {"parked", "returned", "kernel"}

(***************************************************************************)
(* Shared low memory                                                       *)
(***************************************************************************)
\* the words an x86 AP loads after it left the spin loop
X86Words == {GDT, IDT, PT_ROOT, TAGS, LAPIC}
\* loader_cb.c, x86 build: its trampoline loads a null IDT
CbWords == {GDT, PT_ROOT, TAGS, LAPIC}
\* the words an AArch64 AP is meant to load after it left the spin loop
RpiWords == {SCTLR, MAIR, TCR, TTBR0, TTBR1, TAGS}
PublishedWords(f) ==
    CASE f = "RPI" -> RpiWords
      [] f = "CB" -> CbWords
      [] OTHER -> X86Words

\* uint32_t a; a-- (two's complement: 0 - 1 is 0xFFFFFFFF, held as -1)
Dec32(a) == IF a = -2147483647 - 1 THEN 2147483647 ELSE a - 1

(***************************************************************************)
(* Initial state: fw_init has run.  On x86 and coreboot fw_init may have   *)
(* failed to allocate the page tables or to find the boot partition, in    *)
(* which case _start goes to err straight away.                            *)
(***************************************************************************)
\* what fw_init clears: the flags, the reader, the kernel and the SMP state
Cleared ==
    /\ bkp = 0
    /\ rq = 0
    /\ key = FALSE
    /\ nkeys = 0
    /\ rd = NoRead
    /\ rpc = "config"
    /\ kern = NoKernel
    /\ seg = 0
    /\ mods = 0
    /\ smp = 0
    /\ nagain = 0
    /\ bsp = [i |-> 1, a |-> 0, waited |-> 0, running |-> 0, numcores |-> 0,
              counted |-> {}, sipi |-> {}, done |-> FALSE]
    /\ ap = [i \in APs |-> NoAp]
    /\ hist = [apw |-> {}, pub |-> FALSE, post |-> {}, via |-> "none",
               cut |-> FALSE]

\* the things with fixed address: pt, file_buf (no fw_map call made yet)
MapInit ==
    /\ ptm = << >>
    /\ file_buf = 1024 * 1024
    /\ heap = 32 * 1024 * 1024
    /\ calls = << >>

\* no kernel file opened
NoFile == [fmt |-> "none", entry |-> 0, img_base |-> 0, hdroff |-> 0,
           segs |-> << >>]

\* memmap = NULL; num_memmap = 0; ram = 0; kernel_entry = NULL
LoadIdle ==
    /\ fwmap = << >>
    /\ memmap = << >>
    /\ ram = 0
    /\ kfile = NoFile
    /\ kernel_entry = 0
    /\ ldlog = << >>

\* no machine looked at, no tag buffer, initrd = NULL, zero_page = NULL
NoHw == [smbios |-> 0, acpi |-> "none", nmap |-> 0, fb |-> FALSE, edid |-> 0]
NoZero == [at |-> 0, ramdisk_image |-> 0, ramdisk_size |-> 0]
MbiIdle ==
    /\ hw = NoHw
    /\ tags_buf = 0
    /\ tags_ptr = 0
    /\ tagmem = << >>
    /\ initrd = 0
    /\ zero_page = NoZero
    /\ modlist = << >>
    /\ dsdt_ptr = 0

\* conf_buf = NULL
CfgIdle ==
    /\ conf = << >>
    /\ parsed = << >>

\* no FADT found
AcpiIdle == fadt = << >>

\* no volume looked at, no file open
FatIdle ==
    /\ vol = << >>
    /\ fr = << >>

\* dtb_base = 0
DtbIdle ==
    /\ dtb = << >>
    /\ dt = << >>

\* no boot services
EfiIdle ==
    /\ bsmem = << >>
    /\ ptrs = << >>

Init ==
    /\ fw \in Firmwares
    /\ pc \in (IF fw = "RPI" THEN {"config"} ELSE {"config", "err"})
    /\ mem \in [sem : {0, 1}, alive : {0}, wr : {{}}, mbi : {"open"}]
    /\ Cleared
    /\ MapInit
    /\ LoadIdle
    /\ MbiIdle
    /\ CfgIdle
    /\ AcpiIdle
    /\ FatIdle
    /\ DtbIdle
    /\ EfiIdle

smpvars == <<bsp, ap, mem, hist>>

(***************************************************************************)
(* The user presses a key.  The loader looks at the keyboard only in       *)
(* fw_read and at the err label, so a key pressed at any other time is     *)
(* taken as pressed when the loader arrives at one of the two.             *)
(***************************************************************************)
KeyPress ==
    /\ pc \in {"read", "err"}
    /\ ~key
    /\ nkeys < MaxKeys
    /\ key' = TRUE
    /\ nkeys' = nkeys + 1
    /\ UNCHANGED <<fw, pc, bkp, rq, rd, rpc, kern, seg, mods, smp, nagain>>
    /\ UNCHANGED smpvars
    /\ UNCHANGED auxvars

(***************************************************************************)
(* fw_read: one call, sector by sector (block by block on UEFI)            *)
(***************************************************************************)
\* the call fw_read(offs, n blocks, buf) made at a place that continues at after
StartRead(n, after) ==
    /\ rd' = [req |-> n, got |-> 0, keyed |-> FALSE, after |-> 0]
    /\ rpc' = after
    /\ pc' = "read"

\* one sector moved into the buffer; det: the key press was detected just before
Transfer(det) ==
    rd' = [rd EXCEPT !.got = @ + 1,
                     !.keyed = @ \/ det,
                     !.after = IF rd.keyed \/ det THEN @ + 1 ELSE @]

\* bios_read with fw_loadsec: the port 0x64 status bit is polled, then the
\* sector is loaded; the loop ends when rq is set
bios_read ==
    /\ fw = "BIOS" /\ pc = "read"
    /\ rd.got < rd.req /\ rq = 0
    /\ LET det == bkp = 0 /\ key
       IN  /\ rq' = (IF det THEN 1 ELSE rq)
           /\ Transfer(det)
    /\ UNCHANGED <<fw, pc, bkp, key, nkeys, rpc, kern, seg, mods, smp, nagain>>
    /\ UNCHANGED smpvars
    /\ UNCHANGED auxvars

\* efi_read: ReadKeyStroke takes the key out of ConIn; the loop does not test rq
efi_read ==
    /\ fw = "UEFI" /\ pc = "read"
    /\ rd.got < rd.req
    /\ LET poll == bkp = 0 /\ rq = 0
           det == poll /\ key
       IN  /\ rq' = (IF det THEN 1 ELSE rq)
           /\ key' = (IF poll THEN FALSE ELSE key)
           /\ Transfer(det)
    /\ UNCHANGED <<fw, pc, bkp, nkeys, rpc, kern, seg, mods, smp, nagain>>
    /\ UNCHANGED smpvars
    /\ UNCHANGED auxvars

\* fw_read of loader_rpi.c: the UART flag is tested first and the loop is left
rpi_read ==
    /\ fw = "RPI" /\ pc = "read"
    /\ rd.got < rd.req /\ rq = 0
    /\ IF bkp = 0 /\ key
       THEN /\ rq' = 1
            /\ rd' = [rd EXCEPT !.keyed = TRUE]
       ELSE /\ rq' = rq
            /\ Transfer(FALSE)
    /\ UNCHANGED <<fw, pc, bkp, key, nkeys, rpc, kern, seg, mods, smp, nagain>>
    /\ UNCHANGED smpvars
    /\ UNCHANGED auxvars

\* fw_read of loader_cb.c with loadsec: havekey() is asked in both modes and
\* getchar() takes the key, then the sector is loaded
cb_read ==
    /\ fw = "CB" /\ pc = "read"
    /\ rd.got < rd.req /\ rq = 0
    /\ rq' = (IF key THEN 1 ELSE rq)
    /\ key' = FALSE
    /\ Transfer(key)
    /\ UNCHANGED <<fw, pc, bkp, nkeys, rpc, kern, seg, mods, smp, nagain>>
    /\ UNCHANGED smpvars
    /\ UNCHANGED auxvars

\* return (size - rem)
fw_read_ret ==
    /\ pc = "read"
    /\ rd.got = rd.req \/ (fw # "UEFI" /\ rq = 1)
    /\ rd' = NoRead
    /\ pc' = rpc
    /\ rpc' = "config"
    /\ hist' = [hist EXCEPT !.cut = @ \/ (rd.got < rd.req
                                          /\ rpc \in {"segs", "modules"})]
    /\ UNCHANGED <<fw, bkp, rq, key, nkeys, kern, seg, mods, smp, nagain>>
    /\ UNCHANGED <<bsp, ap, mem>>
    /\ UNCHANGED auxvars

(***************************************************************************)
(* _start: the passes over configuration, kernel and modules               *)
(***************************************************************************)
\* fw_loadconfig: open and read the configuration, parse the options.
\* exists: simpleboot.cfg (or menu.cfg) was found; mc: the pass's active
\* lines hold `multicore`.
fw_loadconfig ==
    /\ pc = "config"
    /\ \E exists \in BOOLEAN, mc \in {0, 1}, n \in 1..MaxBlocks :
          IF exists
          THEN /\ StartRead(n, "splash")
               /\ smp' = mc
          ELSE /\ pc' = "setup"
               /\ smp' = smp
               /\ UNCHANGED <<rd, rpc>>
    /\ UNCHANGED <<fw, bkp, rq, key, nkeys, kern, seg, mods, nagain>>
    /\ UNCHANGED smpvars
    /\ UNCHANGED auxvars

\* the bootsplash line of fw_loadconfig: the logo is read with fw_read
fw_loadconfig_splash ==
    /\ pc = "splash"
    /\ \E has \in BOOLEAN, n \in 1..MaxBlocks :
          IF has
          THEN StartRead(n, "setup")
          ELSE pc' = "setup" /\ UNCHANGED <<rd, rpc>>
    /\ UNCHANGED <<fw, bkp, rq, key, nkeys, kern, seg, mods, smp, nagain>>
    /\ UNCHANGED smpvars
    /\ UNCHANGED auxvars

\* fw_loadsetup starts the tag list again; _start then tests ram
fw_loadsetup ==
    /\ pc = "setup"
    /\ \E ramok \in BOOLEAN : pc' = (IF ramok THEN "loadkernel" ELSE "err")
    /\ mem' = [mem EXCEPT !.mbi = "open"]
    /\ UNCHANGED <<fw, bkp, rq, key, nkeys, rd, rpc, kern, seg, mods, smp, nagain,
                   bsp, ap, hist>>
    /\ UNCHANGED auxvars

\* fw_loadkernel, first half: open the kernel and read its first 4096 bytes.
\* On BIOS a bootable VBR stands in for a missing kernel.
fw_loadkernel ==
    /\ pc = "loadkernel"
    /\ \E found \in BOOLEAN, vbr \in BOOLEAN, n \in 1..MaxBlocks :
          IF found
          THEN /\ StartRead(n, "sniff")
               /\ UNCHANGED <<smp, kern>>
          ELSE /\ smp' = 0
               /\ IF fw = "BIOS" /\ vbr
                  THEN /\ kern' = [kern EXCEPT !.mode = "VBR", !.nseg = 0]
                       /\ pc' = "modules"
                  ELSE /\ kern' = kern
                       /\ pc' = "err"
               /\ UNCHANGED <<rd, rpc>>
    /\ seg' = 0
    /\ mods' = 0
    /\ UNCHANGED <<fw, bkp, rq, key, nkeys, nagain>>
    /\ UNCHANGED smpvars
    /\ UNCHANGED auxvars

\* fw_loadkernel, format sniffing: Linux, Multiboot2 ELF or PE, or unknown
\* (also: unsupported Linux boot protocol).  entry = 0 is an e_entry of zero.
fw_loadkernel_sniff ==
    /\ pc = "sniff"
    /\ \E fmt \in (KernelModes \ {"VBR"}) \cup {"unknown"},
          e \in {0, 1}, ns \in 0..MaxSegs :
          IF fmt = "unknown" \/ (fw = "RPI" /\ fmt = "MB32")
          THEN /\ smp' = 0
               /\ pc' = "err"
               /\ kern' = kern
          ELSE /\ kern' = [kern EXCEPT !.mode = fmt,
                              !.entry = (IF fmt = "LIN" THEN 1 ELSE e),
                              !.nseg = (IF fmt = "LIN" THEN 1 ELSE ns)]
               /\ smp' = (IF fmt = "LIN" THEN 0 ELSE smp)
               /\ pc' = "segs"
    /\ UNCHANGED <<fw, bkp, rq, key, nkeys, rd, rpc, seg, mods, nagain>>
    /\ UNCHANGED smpvars
    /\ UNCHANGED auxvars

\* fw_loadseg called from the segment loops of fw_loadkernel, which stop when
\* rq is set (the single Linux segment is loaded without that test)
fw_loadseg ==
    /\ pc = "segs"
    /\ seg < kern.nseg
    /\ rq = 0 \/ kern.mode = "LIN"
    /\ \E ok \in BOOLEAN, n \in 0..MaxBlocks :
          IF ~ok
          THEN /\ smp' = 0
               /\ pc' = "err"
               /\ UNCHANGED <<rd, rpc, seg>>
          ELSE /\ seg' = seg + 1
               /\ smp' = smp
               /\ IF n = 0
                  THEN UNCHANGED <<pc, rd, rpc>>
                  ELSE StartRead(n, "segs")
    /\ UNCHANGED <<fw, bkp, rq, key, nkeys, kern, mods, nagain>>
    /\ UNCHANGED smpvars
    /\ UNCHANGED auxvars

\* fw_loadkernel returns 1; SMP is only kept for MODE_MB64
fw_loadkernel_ret ==
    /\ pc = "segs"
    /\ seg = kern.nseg \/ (rq = 1 /\ kern.mode # "LIN")
    /\ smp' = (IF kern.mode # "MB64" THEN 0 ELSE smp)
    /\ pc' = "modules"
    /\ seg' = 0
    /\ hist' = [hist EXCEPT !.cut = @ \/ seg < kern.nseg]
    /\ UNCHANGED <<fw, bkp, rq, key, nkeys, rd, rpc, kern, mods, nagain>>
    /\ UNCHANGED <<bsp, ap, mem>>
    /\ UNCHANGED auxvars

\* fw_loadmodules: one module line, the loop stops when rq is set
fw_loadmodules ==
    /\ pc = "modules"
    /\ rq = 0
    /\ mods < MaxMods
    /\ \E n \in 1..MaxBlocks : StartRead(n, "modules")
    /\ mods' = mods + 1
    /\ UNCHANGED <<fw, bkp, rq, key, nkeys, kern, seg, smp, nagain>>
    /\ UNCHANGED smpvars
    /\ UNCHANGED auxvars

\* _start without the test of rq after fw_loadmodules
again_norq ==
    /\ pc = "modules"
    /\ pc' = "fini"
    /\ mods' = 0
    /\ UNCHANGED <<fw, bkp, rq, key, nkeys, rd, rpc, kern, seg, smp, nagain>>
    /\ UNCHANGED smpvars
    /\ UNCHANGED auxvars

\* after fw_loadmodules:  if(!bkp && rq) { bkp++; rq = 0; goto again; }
again ==
    /\ pc = "modules"
    /\ IF bkp = 0 /\ rq # 0
       THEN /\ bkp' = bkp + 1
            /\ rq' = 0
            /\ nagain' = nagain + 1
            /\ pc' = "config"
            /\ hist' = [hist EXCEPT !.via = "again", !.cut = FALSE]
       ELSE /\ pc' = "fini"
            /\ UNCHANGED <<bkp, rq, nagain, hist>>
    /\ mods' = 0
    /\ UNCHANGED <<fw, key, nkeys, rd, rpc, kern, seg, smp, bsp, ap, mem>>
    /\ UNCHANGED auxvars

(***************************************************************************)
(* the err label of _start / main                                          *)
(***************************************************************************)
\* err_bios without the bkp++ before goto again
err_bios_nobkp(b, r, k) ==
    IF b # 0 THEN [pc |-> "parked", bkp |-> b, rq |-> r, key |-> k, again |-> 0]
    ELSE IF k THEN [pc |-> "config", bkp |-> b, rq |-> 0, key |-> k, again |-> 1]
    ELSE [pc |-> "err", bkp |-> b, rq |-> r, key |-> k, again |-> 0]

\* BIOS (loader_x86.c with systab = NULL)
err_bios(b, r, k) ==
    IF b # 0 THEN [pc |-> "parked", bkp |-> b, rq |-> r, key |-> k, again |-> 0]
    ELSE IF k THEN [pc |-> "config", bkp |-> b + 1, rq |-> 0, key |-> k, again |-> 1]
    ELSE [pc |-> "err", bkp |-> b, rq |-> r, key |-> k, again |-> 0]

\* UEFI (loader_x86.c with a system table): return EFI_LOAD_ERROR
err_uefi(b, r, k) ==
    [pc |-> "returned", bkp |-> b, rq |-> r, key |-> k, again |-> 0]

\* err_rpi without the if(bkp) in front of the UART loop
err_rpi_retry(b, r, k) ==
    IF k THEN [pc |-> "config", bkp |-> b + 1, rq |-> r, key |-> k, again |-> 0]
    ELSE [pc |-> "err", bkp |-> b, rq |-> r, key |-> k, again |-> 0]

\* loader_rpi.c: the UART flag is tested, rq is left as it is
err_rpi(b, r, k) ==
    IF b # 0 THEN [pc |-> "parked", bkp |-> b, rq |-> r, key |-> k, again |-> 0]
    ELSE IF k THEN [pc |-> "config", bkp |-> b + 1, rq |-> r, key |-> k, again |-> 1]
    ELSE [pc |-> "err", bkp |-> b, rq |-> r, key |-> k, again |-> 0]

\* loader_cb.c: getchar() waits for a key and takes it, rq is left as it is
err_cb(b, r, k) ==
    IF b # 0 THEN [pc |-> "parked", bkp |-> b, rq |-> r, key |-> k, again |-> 0]
    ELSE IF k THEN [pc |-> "config", bkp |-> b + 1, rq |-> r, key |-> FALSE, again |-> 1]
    ELSE [pc |-> "err", bkp |-> b, rq |-> r, key |-> k, again |-> 0]

err ==
    /\ pc = "err"
    /\ LET o == CASE fw = "BIOS" -> err_bios(bkp, rq, key)
                  [] fw = "UEFI" -> err_uefi(bkp, rq, key)
                  [] fw = "RPI" -> err_rpi(bkp, rq, key)
                  [] OTHER -> err_cb(bkp, rq, key)
       IN  /\ o.pc # "err"
           /\ pc' = o.pc
           /\ bkp' = o.bkp
           /\ rq' = o.rq
           /\ key' = o.key
           /\ nagain' = nagain + o.again
           /\ hist' = [hist EXCEPT !.via = IF o.again = 1 THEN "err" ELSE @,
                                   !.cut = IF o.pc = "config" THEN FALSE ELSE @]
    /\ UNCHANGED <<fw, nkeys, rd, rpc, kern, seg, mods, smp, bsp, ap, mem>>
    /\ UNCHANGED auxvars

(***************************************************************************)
(* fw_fini: tag list, published words, SMP start                           *)
(***************************************************************************)
\* the words fw_fini stores whether or not SMP is started
FiniWords(f) ==
    CASE f = "RPI" -> {SCTLR, MAIR, TCR, TTBR0, TTBR1}
      [] f = "CB" -> {GDT}
      [] OTHER -> {GDT, IDT}

\* fw_fini leaving the stores to 0x530, 0x540, 0x550 for later
SmpWords_late(f) == {}

\* the words stored under if(smp ...) before the APs are started
SmpWords(f) == IF f = "RPI" THEN {TAGS} ELSE {PT_ROOT, TAGS, LAPIC}

\* repnz stosb at 0x500 for 256 bytes (loader_cb.c only)
ClearLow(f, m) ==
    IF f = "CB" THEN [m EXCEPT !.wr = {}, !.sem = 0, !.alive = 0] ELSE m

\* fw_fini of loader_x86.c and of the x86 build of loader_cb.c, up to the
\* first SIPI: the SMP tag (numcores = n, running = 1), the terminator tag
\* and total_size, GDT and IDT, and under if(smp && n > 1 && lapic && st)
\* the published words, the cleared semaphore, the relocated trampoline and
\* the INIT IPIs.  madt: an APIC table with a LAPIC address and more than
\* one processor was found.
fw_fini ==
    /\ pc = "fini"
    /\ fw \in X86
    /\ \E madt \in BOOLEAN :
          LET m == [ClearLow(fw, mem) EXCEPT !.wr = @ \cup FiniWords(fw),
                                             !.mbi = "final"]
          IN  IF smp = 1 /\ madt
              THEN /\ pc' = "smp_sipi"
                   /\ smp' = smp
                   /\ mem' = [m EXCEPT !.wr = @ \cup SmpWords(fw), !.sem = 0]
                   /\ ap' = [i \in APs |-> NoAp]
              ELSE /\ pc' = "entry"
                   /\ smp' = 0
                   /\ mem' = [m EXCEPT !.alive = 0]
                   /\ ap' = ap
    /\ bsp' = [i |-> 1, a |-> 0, waited |-> 0, running |-> 1,
               numcores |-> NumAPs + 1, counted |-> {}, sipi |-> {},
               done |-> FALSE]
    /\ UNCHANGED <<fw, bkp, rq, key, nkeys, rd, rpc, kern, seg, mods, nagain, hist>>
    /\ UNCHANGED auxvars

\* start APs: clear the alive byte, send the first SIPI, a = 250; after the
\* last AP fw_fini ends with *(uint64_t*)0x558 = 0
smp_sipi ==
    /\ pc = "smp_sipi"
    /\ IF bsp.i <= NumAPs
       THEN /\ mem' = [mem EXCEPT !.alive = 0]
            /\ bsp' = [bsp EXCEPT !.sipi = @ \cup {bsp.i}, !.a = PollBudget,
                                  !.waited = 0]
            /\ pc' = "smp_poll"
       ELSE /\ mem' = [mem EXCEPT !.alive = 0]
            /\ bsp' = [bsp EXCEPT !.done = TRUE, !.a = 0, !.waited = 0]
            /\ pc' = "entry"
    /\ UNCHANGED <<fw, bkp, rq, key, nkeys, rd, rpc, kern, seg, mods, smp, nagain,
                   ap, hist>>
    /\ UNCHANGED auxvars

\* sleep(n): what it leaves in the BSP's variable a.  The macro of
\* loader_x86.c reads the TSC into a; loader_cb.c calls arch_ndelay
sleep(f, a, t) == IF f = "CB" THEN a ELSE t

\* one turn of  for(a = 250; !alive && a > 0; a--) sleep(1);
smp_poll ==
    /\ pc = "smp_poll"
    /\ mem.alive = 0 /\ bsp.a # 0
    /\ bsp.waited < MaxWait
    /\ \E t \in (IF fw = "CB" THEN {0} ELSE TscLow) :
          bsp' = [bsp EXCEPT !.a = Dec32(sleep(fw, bsp.a, t)),
                             !.waited = @ + 1]
    /\ UNCHANGED <<fw, pc, bkp, rq, key, nkeys, rd, rpc, kern, seg, mods, smp,
                   nagain, ap, mem, hist>>
    /\ UNCHANGED auxvars

\* the poll loop is left; if the byte is still zero the SIPI is sent again
\* and the BSP sleeps 250 ms
smp_resend ==
    /\ pc = "smp_poll"
    /\ ~(mem.alive = 0 /\ bsp.a # 0)
    /\ pc' = "smp_count"
    /\ UNCHANGED <<fw, bkp, rq, key, nkeys, rd, rpc, kern, seg, mods, smp, nagain>>
    /\ UNCHANGED smpvars
    /\ UNCHANGED auxvars

\* if(alive) st->running++;  and on to the next AP
smp_count ==
    /\ pc = "smp_count"
    /\ bsp' = [bsp EXCEPT !.running = IF mem.alive # 0 THEN @ + 1 ELSE @,
                          !.counted = IF mem.alive # 0 THEN @ \cup {bsp.i} ELSE @,
                          !.i = @ + 1]
    /\ pc' = "smp_sipi"
    /\ UNCHANGED <<fw, bkp, rq, key, nkeys, rd, rpc, kern, seg, mods, smp, nagain,
                   ap, mem, hist>>
    /\ UNCHANGED auxvars

\* an AP's trampoline at 0x8000 after a SIPI: incb (0x558), then the spin loop
ap_start(i) ==
    /\ fw \in X86
    /\ ap[i].st = "wfs"
    /\ i \in bsp.sipi
    /\ mem' = [mem EXCEPT !.alive = (@ + 1) % 256]
    /\ ap' = [ap EXCEPT ![i].st = "spin"]
    /\ hist' = [hist EXCEPT !.apw = @ \cup {ALIVE}]
    /\ UNCHANGED <<fw, pc, bkp, rq, key, nkeys, rd, rpc, kern, seg, mods, smp,
                   nagain, bsp>>
    /\ UNCHANGED auxvars

\* the spin loop of the x86 trampoline sees a non-zero word at 0x538, loads
\* GDT, page-table root, IDT, LAPIC base and tag buffer, jumps to the entry
ap_enter(i) ==
    /\ fw \in X86
    /\ ap[i].st = "spin"
    /\ mem.sem # 0
    /\ ap' = [ap EXCEPT ![i].st = "kernel"]
    /\ UNCHANGED <<fw, pc, bkp, rq, key, nkeys, rd, rpc, kern, seg, mods, smp,
                   nagain, bsp, mem, hist>>
    /\ UNCHANGED auxvars

(***************************************************************************)
(* fw_fini and the AP trampoline of loader_rpi.c                           *)
(***************************************************************************)
\* fw_fini: n = 4, the SMP tag with running = numcores = n, the MMU register
\* words, and under if(smp) the tag-buffer word, the cleared semaphore and
\* the trampoline address stored into the spin table at 0xE0
fw_fini_rpi ==
    /\ pc = "fini"
    /\ fw = "RPI"
    /\ LET m == [mem EXCEPT !.wr = @ \cup FiniWords(fw), !.mbi = "final",
                            !.alive = 0]
       IN  IF smp = 1
           THEN /\ mem' = [m EXCEPT !.wr = @ \cup SmpWords(fw), !.sem = 0]
                /\ bsp' = [bsp EXCEPT !.numcores = NumAPs + 1,
                                      !.running = NumAPs + 1,
                                      !.sipi = APs, !.done = TRUE]
           ELSE /\ mem' = m
                /\ bsp' = [bsp EXCEPT !.done = FALSE]
    /\ pc' = "entry"
    /\ UNCHANGED <<fw, bkp, rq, key, nkeys, rd, rpc, kern, seg, mods, smp, nagain,
                   ap, hist>>
    /\ UNCHANGED auxvars

\* address of the k-th word the spin loop loads:
\*   mov x2, #0x500; ldr x0, [x2], #0x10;  1: ldr x30, [x2], #0x38; cbz x30, 1b
\* (post-indexed loads: x2 moves on by the immediate after every load)
SpinBase == 1296
SpinStride == 56
SpinAddr(k) == SpinBase + k * SpinStride

\* what a load of the doubleword at address a may return: the semaphore at
\* SEM, otherwise memory the loader has not stored to (any value)
LoadWord(m, a) == IF a = SEM THEN {m.sem} ELSE {0, 1}

\* an AP leaves the firmware's spin table loop and enters the trampoline
ap_start_rpi(i) ==
    /\ fw = "RPI"
    /\ ap[i].st = "wfs"
    /\ i \in bsp.sipi
    /\ ap' = [ap EXCEPT ![i] = [st |-> "spin", x2 |-> 0]]
    /\ UNCHANGED <<fw, pc, bkp, rq, key, nkeys, rd, rpc, kern, seg, mods, smp,
                   nagain, bsp, mem, hist>>
    /\ UNCHANGED auxvars

\* one turn of the trampoline's spin loop; a non-zero x30 ends it and the AP
\* loads the MMU registers and returns to x30
ap_spin_rpi(i) ==
    /\ fw = "RPI"
    /\ ap[i].st = "spin"
    /\ \E v \in LoadWord(mem, SpinAddr(ap[i].x2)) :
          IF v = 0
          THEN /\ ap[i].x2 < MaxSpin
               /\ ap' = [ap EXCEPT ![i].x2 = @ + 1]
          ELSE ap' = [ap EXCEPT ![i].st = "kernel"]
    /\ UNCHANGED <<fw, pc, bkp, rq, key, nkeys, rd, rpc, kern, seg, mods, smp,
                   nagain, bsp, mem, hist>>
    /\ UNCHANGED auxvars

(***************************************************************************)
(* _start after fw_fini: transfer of control                               *)
(***************************************************************************)
\* if(!kernel_entry) goto err  (not asked for a VBR on BIOS)
entry ==
    /\ pc = "entry"
    /\ pc' = (IF kern.mode # "VBR" /\ kern.entry = 0 THEN "err" ELSE "handover")
    /\ UNCHANGED <<fw, bkp, rq, key, nkeys, rd, rpc, kern, seg, mods, smp, nagain>>
    /\ UNCHANGED smpvars
    /\ UNCHANGED auxvars

\* case MODE_MB64: if(smp) *0x538 = kernel_entry
handover ==
    /\ pc = "handover"
    /\ IF kern.mode = "MB64" /\ smp # 0
       THEN /\ mem' = [mem EXCEPT !.sem = kern.entry]
            /\ hist' = [hist EXCEPT !.pub = TRUE]
       ELSE UNCHANGED <<mem, hist>>
    /\ pc' = "jump"
    /\ UNCHANGED <<fw, bkp, rq, key, nkeys, rd, rpc, kern, seg, mods, smp, nagain,
                   bsp, ap>>
    /\ UNCHANGED auxvars

\* the shared words the BSP stores to between the semaphore store and the
\* jump (on Raspberry Pi it pushes its core id on its own stack at 0x80000,
\* which no AP uses: the APs' stacks are 0x80000 - coreid * 1024)
JumpWords(f) == {}

\* the BSP loads its registers and stack pointer and jumps to the entry point
jump ==
    /\ pc = "jump"
    /\ pc' = "kernel"
    /\ mem' = [mem EXCEPT !.wr = @ \cup JumpWords(fw)]
    /\ hist' = [hist EXCEPT !.post = IF hist.pub THEN @ \cup JumpWords(fw) ELSE @]
    /\ UNCHANGED <<fw, bkp, rq, key, nkeys, rd, rpc, kern, seg, mods, smp, nagain,
                   bsp, ap>>
    /\ UNCHANGED auxvars

Next ==
    \/ KeyPress
    \/ bios_read \/ efi_read \/ rpi_read \/ cb_read \/ fw_read_ret
    \/ fw_loadconfig \/ fw_loadconfig_splash \/ fw_loadsetup
    \/ fw_loadkernel \/ fw_loadkernel_sniff \/ fw_loadseg \/ fw_loadkernel_ret
    \/ fw_loadmodules \/ again \/ err
    \/ fw_fini \/ smp_sipi \/ smp_poll \/ smp_resend \/ smp_count
    \/ fw_fini_rpi
    \/ entry \/ handover \/ jump
    \/ \E i \in APs : ap_start(i)
    \/ \E i \in APs : ap_enter(i)
    \/ \E i \in APs : ap_start_rpi(i)
    \/ \E i \in APs : ap_spin_rpi(i)

Spec == Init /\ [][Next]_vars

(***************************************************************************)
(* Page map: fw_map and the higher-half branch of fw_loadseg               *)
(* (loader_x86.c, BIOS and UEFI).                                          *)
(*                                                                         *)
(* A 64-bit virtual address is held in three limbs: hi = bits 48..63,      *)
(* mid = bits 30..47, low = bits 0..29.  Physical addresses and page-table *)
(* entries of the model stay below 2 GiB and are plain integers.           *)
(***************************************************************************)
PAGE == 4096
LowSpan == 1024 * 1024 * 1024
MidSpan == 512 * 512
HiSpan == 256 * 256
LargeSpan == 2 * 1024 * 1024

\* virt + n for 0 <= n < 2^30, modulo 2^64
VAdd(v, n) ==
    LET s == v.low + n
        m == v.mid + (s \div LowSpan)
    IN  [hi |-> (v.hi + (m \div MidSpan)) % HiSpan,
         mid |-> m % MidSpan,
         low |-> s % LowSpan]

\* a < b on unsigned 64-bit values
VLess(a, b) ==
    \/ a.hi < b.hi
    \/ a.hi = b.hi /\ a.mid < b.mid
    \/ a.hi = b.hi /\ a.mid = b.mid /\ a.low < b.low

\* virt & ~4095
VPage(v) == [v EXCEPT !.low = @ - (@ % PAGE)]

\* (virt >> 39) & 511, (virt >> 30) & 511, (virt >> 21) & 511, (virt >> 12) & 511
Idx4(v) == v.mid \div 512
Idx3(v) == v.mid % 512
Idx2(v) == v.low \div LargeSpan
Idx1(v) == (v.low \div PAGE) % 512

\* (virt >> 48) is 0x0000 or 0xffff
Canonical(v) == v.hi = 0 \/ v.hi = HiSpan - 1

\* the root table: at 0x1000 on BIOS, 68 pages from AllocatePages on UEFI
PtBase(f) == IF f = "BIOS" THEN PAGE ELSE 16 * 1024 * 1024
\* bios_pagetables(g): g is 5 on BIOS and 64 on UEFI
Gigs(f) == IF f = "BIOS" THEN 5 ELSE 64

\* what bios_pagetables left in the doubleword at address a: pt[0], the g
\* entries pt[512 + i], the 2 MiB identity pages pt[1024 + i]; zero elsewhere
\* (every page fw_map allocates is cleared by bios_alloc / efi_alloc)
bios_pagetables(f, a) ==
    LET i == (a - PtBase(f)) \div 8
    IN  IF a < PtBase(f) \/ a % 8 # 0 THEN 0
        ELSE IF i = 0 THEN PtBase(f) + PAGE + 3
        ELSE IF i >= 512 /\ i < 512 + Gigs(f)
             THEN PtBase(f) + (i - 512 + 2) * PAGE + 3
        ELSE IF i >= 1024 /\ i < 1024 + Gigs(f) * 512
             THEN (i - 1024) * LargeSpan + 131
        ELSE 0

\* *ptr for the entry at address a
Rd(f, m, a) == IF a \in DOMAIN m THEN m[a] ELSE bios_pagetables(f, a)
\* *ptr = e
Wr(m, a, e) == [x \in DOMAIN m \cup {a} |-> IF x = a THEN e ELSE m[x]]

\* bios_alloc (file_buf += 4096) or efi_alloc (one page from AllocatePages),
\* on the walk state w = [m, fb, hp, next]; the page is the one returned
AllocPage(f, w) == IF f = "BIOS" THEN w.fb ELSE w.hp
AllocDone(f, w) ==
    IF f = "BIOS" THEN [w EXCEPT !.fb = @ + PAGE] ELSE [w EXCEPT !.hp = @ + PAGE]

\* one table level of the walk: the entry at address a is replaced by a
\* fresh table when it is empty (at the 2 MiB level: or a large page)
Level(f, w, a, large) ==
    LET e == Rd(f, w.m, a)
    IN  IF e = 0 \/ (large /\ (e \div 128) % 2 = 1)
        THEN [AllocDone(f, w) EXCEPT !.m = Wr(w.m, a, AllocPage(f, w) + 3)]
        ELSE w

\* ptr = (uint64_t*)(*ptr & ~4095)
TableOf(f, w, a) == Rd(f, w.m, a) - (Rd(f, w.m, a) % PAGE)

\* one step down the tables: s = [w, t] is the walk state and the table at
\* hand; the entry idx of t is filled if need be and the table it names is
\* the next one at hand
Down(f, s, idx, large) ==
    LET w1 == Level(f, s.w, s.t + 8 * idx, large)
    IN  [w |-> w1, t |-> TableOf(f, w1, s.t + 8 * idx)]

\* the 4 KiB entry: if(!*ptr) { *ptr = (uint64_t)next; next = ptr; }
Leaf(f, s, idx) ==
    IF Rd(f, s.w.m, s.t + 8 * idx) = 0
    THEN [s.w EXCEPT !.m = Wr(s.w.m, s.t + 8 * idx, s.w.next),
                     !.next = s.t + 8 * idx]
    ELSE s.w

\* the body of the loop of fw_map for the page at v
MapPage(f, w, v) ==
    Leaf(f,
         Down(f,
              Down(f,
                   Down(f, [w |-> w, t |-> PtBase(f)], Idx4(v), FALSE),
                   Idx3(v), FALSE),
              Idx2(v), TRUE),
         Idx1(v))

\* for(virt &= ~4095; virt < end; virt += 4096)
RECURSIVE MapWalk(_, _, _, _)
MapWalk(f, w, v, end) ==
    IF VLess(v, end) THEN MapWalk(f, MapPage(f, w, v), VAdd(v, PAGE), end) ELSE w

\* resolve the linked list: for(...; next; end -= 4096, next = ptr)
RECURSIVE MapFill(_, _, _, _)
MapFill(f, m, next, end) ==
    IF next = 0 THEN m
    ELSE MapFill(f, Wr(m, next, end + 3), Rd(f, m, next), end - PAGE)

\* fw_map(phys, virt, size) on the memory [m, fb, hp]: the value returned
\* and the memory it leaves
fw_map(f, st, phys, virt, size) ==
    IF ~Canonical(virt) THEN [ret |-> 0, m |-> st.m, fb |-> st.fb, hp |-> st.hp]
    ELSE LET orig == st.fb
             w == MapWalk(f, [m |-> st.m, fb |-> st.fb, hp |-> st.hp, next |-> 0],
                          VPage(virt), VAdd(virt, size))
             top == (IF phys = orig THEN w.fb ELSE phys) + size - 1
         IN  [ret |-> 1,
              m |-> MapFill(f, w.m, w.next, top - (top % PAGE)),
              fb |-> w.fb, hp |-> w.hp]

\* the translation of the virtual address v by the tables in m: the
\* physical page, or -1 when v is not mapped
resolve(f, m, v) ==
    LET e4 == Rd(f, m, PtBase(f) + 8 * Idx4(v))
        e3 == Rd(f, m, (e4 - (e4 % PAGE)) + 8 * Idx3(v))
        e2 == Rd(f, m, (e3 - (e3 % PAGE)) + 8 * Idx2(v))
        e1 == Rd(f, m, (e2 - (e2 % PAGE)) + 8 * Idx1(v))
    IN  IF e4 % 2 = 0 THEN -1
        ELSE IF e3 % 2 = 0 THEN -1
        ELSE IF e2 % 2 = 0 THEN -1
        ELSE IF (e2 \div 128) % 2 = 1
             THEN (e2 - (e2 % LargeSpan)) + ((v.low % LargeSpan) - (v.low % PAGE))
        ELSE IF e1 % 2 = 0 THEN -1
        ELSE e1 - (e1 % PAGE)

\* p_vaddr of the segments the model loads: the usual higher half
\* 0xffffffff80000000, the same plus 0x800, plus one page, the last page
\* below the next 2 MiB boundary, an address the identity map covers
\* (1 GiB, above the top of RAM), and a non-canonical address
HigherHalf == [hi |-> HiSpan - 1, mid |-> MidSpan - 2, low |-> 0]
Vaddrs ==
    {HigherHalf,
     VAdd(HigherHalf, 2048),
     VAdd(HigherHalf, PAGE),
     VAdd(HigherHalf, LargeSpan - PAGE),
     [hi |-> 0, mid |-> 1, low |-> 0],
     [hi |-> 4660, mid |-> 0, low |-> 0]}

\* size = (memsz + (vaddr & 4095) + 4095) & ~4095
SegSize(vaddr, memsz) ==
    LET n == memsz + (vaddr.low % PAGE) + (PAGE - 1) IN n - (n % PAGE)

\* fw_loadseg for a segment above the top of RAM (vaddr > ram): on UEFI the
\* buffer comes from efi_allocpages and is mapped; on BIOS file_buf is mapped
\* and then becomes the buffer.  A refused map is the err exit.
fw_loadseg_map ==
    /\ fw \in {"BIOS", "UEFI"}
    /\ Len(calls) < MaxMaps
    /\ \E vaddr \in Vaddrs, np \in 1..MaxPages :
          LET size == SegSize(vaddr, np * PAGE)
              uefi == fw = "UEFI"
              phys == IF uefi THEN heap ELSE file_buf
              st == [m |-> ptm, fb |-> file_buf,
                     hp |-> IF uefi THEN heap + size ELSE heap]
              r == fw_map(fw, st, phys, vaddr, size)
              buf == IF uefi THEN phys ELSE r.fb
          IN  /\ ptm' = r.m
              /\ heap' = r.hp
              /\ file_buf' = (IF ~uefi /\ r.ret = 1 THEN r.fb + size ELSE r.fb)
              /\ calls' = Append(calls, [virt |-> vaddr, size |-> size,
                                         buf |-> buf, ret |-> r.ret,
                                         pre |-> ptm])
    /\ UNCHANGED fw
    /\ UNCHANGED bootvars
    /\ UNCHANGED restMap

InitMap ==
    /\ Init
    /\ fw \in {"BIOS", "UEFI"}
    /\ pc = "config"
    /\ mem.sem = 0

NextMap == fw_loadseg_map

SpecMap == InitMap /\ [][NextMap]_vars

(***************************************************************************)
(* The memory map, the top of RAM and the kernel loader: fw_loadsetup's    *)
(* memory-map step, fw_loadkernel and fw_loadseg.  Addresses are bytes.    *)
(***************************************************************************)
MiB == 1024 * 1024
\* no overwriting of the loader data: 0x20000 + (TAGS_MAX + 2) * 4096
TAGS_MAX == 30
LoaderData == 131072 + (TAGS_MAX + 2) * PAGE
\* loader_cb.c refuses 0x300000 < vaddr < 0x400000 as well
CbImage == [lo |-> 3 * MiB, hi |-> 4 * MiB]
\* loader_rpi.c: the end of the loader's sections, a link-time value
\* (the loader is linked at 0x80000)
_bss_end == 655360
\* sizeof(kernel_buf): the part of the kernel file the headers are read from
KernelBuf == 4096
\* ram = 64*1024*1024 when the mailbox call fails
MboxDefault == 64 * MiB

\* ram &= ~(2 * 1024 * 1024 - 1)
Round2M(x) == x - (x % (2 * MiB))
PageDown(x) == x - (x % PAGE)
PageUp(x) == PageDown(x + PAGE - 1)

Max(S) == CHOOSE x \in S : \A y \in S : y <= x

\* the Multiboot2 type a firmware range is given: "free" is E820 type 1,
\* EfiConventionalMemory, CB_MEM_RAM; "used" is memory the firmware itself
\* occupies (EfiLoaderCode .. EfiBootServicesData, CB_MEM_TABLE); "rsv" is
\* anything else
MbType(f, kind) ==
    IF kind = "free" \/ (kind = "used" /\ f \in {"UEFI", "CB"})
    THEN "AVAILABLE" ELSE "RESERVED"

\* the firmware's ranges as multiboot_mmap_entry_t, in the firmware's order
MbEntries(f, fm) ==
    [i \in 1..Len(fm) |-> [base_addr |-> fm[i].base, length |-> fm[i].length,
                           type |-> MbType(f, fm[i].kind)]]

Swap(dst, i, j) == [dst EXCEPT ![i] = dst[j], ![j] = dst[i]]

\* for(j = i; j > 0 && dst[j].base_addr < dst[j - 1].base_addr; j--) swap
RECURSIVE Sink(_, _)
Sink(dst, j) ==
    IF j > 1 /\ dst[j].base_addr < dst[j - 1].base_addr
    THEN Sink(Swap(dst, j - 1, j), j - 1)
    ELSE dst

\* sort_map from its index i on (C's i is one less), r is ram so far
RECURSIVE sort_map(_, _, _)
sort_map(dst, i, r) ==
    IF i > Len(dst) THEN [map |-> dst, ram |-> r]
    ELSE LET d == Sink(dst, i)
             top == d[i].base_addr + d[i].length
         IN  sort_map(d, i + 1,
                      IF d[i].type = "AVAILABLE" /\ top > r THEN top ELSE r)

\* efi_memmap(NULL): the top of the conventional memory
efi_memmap(fm, r) ==
    Max({r} \cup {fm[i].base + fm[i].length :
                    i \in {k \in 1..Len(fm) : fm[k].kind = "free"}})

\* loader_cb.c: the ranges cut to whole pages, empty ones dropped, and
\* ram = end - 1 of the highest available range
CbCut(fm) ==
    LET keep == SelectSeq(fm, LAMBDA e :
                          PageUp(e.base) < PageDown(e.base + e.length))
    IN  [i \in 1..Len(keep) |->
            [base_addr |-> PageUp(keep[i].base),
             length |-> PageDown(keep[i].base + keep[i].length)
                          - PageUp(keep[i].base),
             type |-> MbType("CB", keep[i].kind)]]

cb_memmap(fm) ==
    LET dst == CbCut(fm)
    IN  [map |-> sort_map(dst, 2, 0).map,
         ram |-> Max({0} \cup {dst[i].base_addr + dst[i].length - 1 :
                         i \in {k \in 1..Len(dst) : dst[k].type = "AVAILABLE"}})]

\* loader_rpi.c: ram is the mailbox answer, the map has three fixed entries
\* (the third, the MMIO range, lies above the addresses of this model)
rpi_memmap(fm) ==
    LET r == Round2M(IF Len(fm) > 0 THEN fm[1].base + fm[1].length
                     ELSE MboxDefault)
    IN  [map |-> <<[base_addr |-> 0, length |-> 1024, type |-> "RESERVED"],
                   [base_addr |-> 1024, length |-> r - 1024,
                    type |-> "AVAILABLE"]>>,
         ram |-> r]

\* the memory-map step of fw_loadsetup: the map and the top of RAM
MemorySetup(f, fm, r) ==
    CASE f = "BIOS" -> sort_map(MbEntries(f, fm), 2, r)
      [] f = "UEFI" -> [map |-> << >>, ram |-> efi_memmap(fm, r)]
      [] f = "CB" -> cb_memmap(fm)
      [] OTHER -> rpi_memmap(fm)

\* fw_loadsetup, then _start's test of ram
fw_loadsetup_mmap ==
    /\ pc = "ld_setup"
    /\ LET s == MemorySetup(fw, fwmap, ram)
           r == Round2M(s.ram)
       IN  /\ memmap' = s.map
           /\ ram' = r
           /\ pc' = IF (fw = "CB" /\ r < 64) \/ (fw # "CB" /\ r = 0)
                    THEN "err" ELSE "ld_open"
    /\ UNCHANGED <<fw, bkp, rq, key, nkeys, rd, rpc, kern, seg, mods, smp,
                   nagain, bsp, ap, mem, hist>>
    /\ UNCHANGED <<mapvars, fwmap, kfile, kernel_entry, ldlog>>
    /\ UNCHANGED restLoad

\* the address a segment is to be loaded at: p_vaddr, or for PE
\* offs + sec->vaddr with offs the image base
SegAddr(k, s) == IF k.fmt = "PE" THEN k.img_base + s.vaddr ELSE s.vaddr

\* sizeof(Elf64_Phdr), sizeof(pe_sec)
EntSize(k) == IF k.fmt = "PE" THEN 40 ELSE 56

\* ptr + e_phentsize < kernel_buf + sizeof(kernel_buf), and for PE
\* &sec[1] < kernel_buf + sizeof(kernel_buf), for the header number i
InBuffer(k, i) == k.hdroff + i * EntSize(k) < KernelBuf

\* fw_loadkernel up to the segment loop: the first sizeof(kernel_buf) bytes
\* are read (a key press seen by fw_read sets rq in the primary pass) and
\* the entry point is recorded
fw_loadkernel_open ==
    /\ pc = "ld_open"
    /\ \E k \in BOOLEAN : rq' = IF k /\ bkp = 0 THEN 1 ELSE rq
    /\ kernel_entry' = (IF kfile.fmt = "PE"
                        THEN kfile.img_base + kfile.entry
                        ELSE IF kfile.fmt = "LIN" THEN kernel_entry
                        ELSE kfile.entry)
    /\ seg' = 0
    /\ ldlog' = << >>
    /\ pc' = "ld_segs"
    /\ UNCHANGED <<fw, bkp, key, nkeys, rd, rpc, kern, mods, smp,
                   nagain, bsp, ap, mem, hist>>
    /\ UNCHANGED <<mapvars, fwmap, memmap, ram, kfile>>
    /\ UNCHANGED restLoad

\* the first memory slot vaddr falls in, 0 if none
Slot(mm, vaddr) ==
    LET S == {i \in 1..Len(mm) : /\ mm[i].base_addr <= vaddr
                                /\ mm[i].base_addr + mm[i].length > vaddr}
    IN  IF S = {} THEN 0 ELSE CHOOSE i \in S : \A j \in S : i <= j

\* that slot isn't free or the end doesn't fit in the slot too
SlotRefuses(mm, vaddr, size) ==
    LET i == Slot(mm, vaddr)
    IN  /\ i # 0
        /\ \/ mm[i].type # "AVAILABLE"
           \/ mm[i].base_addr + mm[i].length < PageDown(vaddr) + size

\* the ranges the loader holds from efi_allocpages
Taken(log) ==
    {[lo |-> PageDown(log[i].buf), hi |-> PageDown(log[i].buf) + log[i].size] :
        i \in {k \in 1..Len(log) : log[k].ret = 1 /\ log[k].size > 0}}

\* AllocatePages(AllocateAddress): every page is conventional memory that
\* has not been allocated
AllocateAddress(fm, log, lo, size) ==
    \A p \in {lo + k * PAGE : k \in 0..((size \div PAGE) - 1)} :
        /\ \E i \in 1..Len(fm) : /\ fm[i].kind = "free"
                                 /\ fm[i].base <= p
                                 /\ p + PAGE <= fm[i].base + fm[i].length
        /\ \A t \in Taken(log) : ~(t.lo <= p /\ p < t.hi)

ToV(a) == [hi |-> 0, mid |-> a \div LowSpan, low |-> a % LowSpan]

\* the err exit of fw_loadseg
SegErr(st) == [ret |-> 0, buf |-> 0, size |-> 0, wrote |-> FALSE,
               m |-> st.m, fb |-> st.fb, hp |-> st.hp]
\* the segment is read and cleared at buf
SegDone(st, buf, size) == [ret |-> 1, buf |-> buf, size |-> size,
                           wrote |-> TRUE, m |-> st.m, fb |-> st.fb,
                           hp |-> st.hp]

\* make sure we load modules after the kernel
Bump(st, vaddr, size) ==
    [st EXCEPT !.fb = IF @ < PageUp(vaddr + size) THEN PageUp(vaddr + size)
                      ELSE @]

\* vaddr > ram, loader_x86.c: the segment is mapped
SegMapped(f, st, vaddr, size) ==
    LET uefi == f = "UEFI"
        phys == IF uefi THEN st.hp ELSE st.fb
        r == fw_map(f, [st EXCEPT !.hp = IF uefi THEN @ + size ELSE @],
                    phys, ToV(vaddr), size)
    IN  IF r.ret = 0 THEN SegErr([m |-> r.m, fb |-> r.fb, hp |-> r.hp])
        ELSE IF uefi THEN SegDone([m |-> r.m, fb |-> r.fb, hp |-> r.hp],
                                  phys, size)
        ELSE SegDone([m |-> r.m, fb |-> r.fb + size, hp |-> r.hp],
                     r.fb, size)

\* vaddr > ram, loader_cb.c and loader_rpi.c: their page tables are not
\* part of this model; the address is canonical and the segment is put at
\* file_buf
SegMappedOther(st, size) ==
    SegDone([st EXCEPT !.fb = @ + size], st.fb, size)

\* fw_loadseg(offs, filesz, vaddr, memsz) with st the loader's memory state
fw_loadseg_at(f, st, mm, fm, log, r, vaddr, memsz) ==
    LET size == PageDown(memsz + (vaddr % PAGE) + PAGE - 1)
    IN  CASE memsz = 0 ->
               [ret |-> 1, buf |-> vaddr, size |-> 0, wrote |-> FALSE,
                m |-> st.m, fb |-> st.fb, hp |-> st.hp]
          [] memsz # 0 /\ f = "UEFI" ->
               IF vaddr > r THEN SegMapped(f, st, vaddr, size)
               ELSE IF AllocateAddress(fm, log, PageDown(vaddr), size)
                    THEN SegDone(st, vaddr, size)
                    ELSE SegErr(st)
          [] memsz # 0 /\ f = "BIOS" ->
               IF vaddr < LoaderData THEN SegErr(st)
               ELSE IF vaddr > r THEN SegMapped(f, st, vaddr, size)
               ELSE IF SlotRefuses(mm, vaddr, size)
                    THEN SegErr(Bump(st, vaddr, size))
                    ELSE SegDone(Bump(st, vaddr, size), vaddr, size)
          [] memsz # 0 /\ f = "CB" ->
               IF vaddr < LoaderData \/ (vaddr > CbImage.lo /\ vaddr < CbImage.hi)
               THEN SegErr(st)
               ELSE IF vaddr > r THEN SegMappedOther(st, size)
               ELSE IF SlotRefuses(mm, vaddr, size)
                    THEN SegErr(Bump(st, vaddr, size))
                    ELSE SegDone(Bump(st, vaddr, size), vaddr, size)
          [] OTHER ->
               IF vaddr < _bss_end THEN SegErr(st)
               ELSE IF vaddr > r THEN SegMappedOther(st, size)
               ELSE SegDone(Bump(st, vaddr, size), vaddr, size)

\* for(i = 0; !rq && i < e_phnum && ...) goes on; the Linux image of
\* loader_rpi.c is one call of fw_loadseg that does not ask for rq
SegTurn ==
    IF kfile.fmt = "LIN" THEN seg < Len(kfile.segs)
    ELSE rq = 0 /\ seg < Len(kfile.segs) /\ InBuffer(kfile, seg + 1)

\* one turn of the segment loop of fw_loadkernel: the next program header
\* (PE: section) is loaded; a refused segment is the err exit.  fw_read,
\* called by fw_loadseg, may see a key press.
fw_loadkernel_seg ==
    /\ pc = "ld_segs"
    /\ SegTurn
    /\ \E x \in {fw_loadseg_at(fw, [m |-> ptm, fb |-> file_buf, hp |-> heap],
                                memmap, fwmap, ldlog, ram,
                                SegAddr(kfile, kfile.segs[seg + 1]),
                                kfile.segs[seg + 1].memsz)} :
           /\ ldlog' = Append(ldlog,
                              [vaddr |-> SegAddr(kfile, kfile.segs[seg + 1]),
                               memsz |-> kfile.segs[seg + 1].memsz,
                               size |-> x.size, ret |-> x.ret,
                               buf |-> x.buf, wrote |-> x.wrote])
           /\ ptm' = x.m
           /\ file_buf' = x.fb
           /\ heap' = x.hp
           /\ pc' = IF x.ret = 0 THEN "ld_err" ELSE "ld_segs"
           /\ seg' = seg + 1
           /\ \E k \in BOOLEAN :
                 rq' = IF k /\ bkp = 0 /\ x.wrote THEN 1 ELSE rq
    /\ UNCHANGED <<fw, bkp, key, nkeys, rd, rpc, kern, mods, smp,
                   nagain, bsp, ap, mem, hist>>
    /\ UNCHANGED <<calls, fwmap, memmap, ram, kfile, kernel_entry>>
    /\ UNCHANGED restLoad

\* the segment loop ends: fw_close(); return 1
fw_loadkernel_end ==
    /\ pc = "ld_segs"
    /\ ~SegTurn
    /\ pc' = "ld_ret"
    /\ UNCHANGED <<fw, bkp, rq, key, nkeys, rd, rpc, kern, seg, mods, smp,
                   nagain, bsp, ap, mem, hist>>
    /\ UNCHANGED auxvars

\* the firmware's ranges of the model: conventional low memory, the main
\* memory from 1 MiB to 8 MiB, 2 MiB the firmware occupies and a reserved
\* range
LowMem == [base |-> 0, length |-> 651264, kind |-> "free"]
MainMem == [base |-> MiB, length |-> 7 * MiB, kind |-> "free"]
FwMem == [base |-> 8 * MiB, length |-> 2 * MiB, kind |-> "used"]
RsvMem == [base |-> 10 * MiB, length |-> MiB, kind |-> "rsv"]
Ranges(f) ==
    IF f = "BIOS" THEN {LowMem, MainMem, RsvMem}
    ELSE {LowMem, MainMem, FwMem, RsvMem}

\* the maps the firmware may return: up to three ranges in any order; on
\* the Raspberry Pi the mailbox answer (none: the call failed)
FwMaps(f) ==
    IF f = "RPI"
    THEN {<< >>, <<[base |-> 0, length |-> 8 * MiB, kind |-> "free"]>>,
          <<[base |-> 0, length |-> 7 * MiB, kind |-> "free"]>>}
    ELSE {m \in UNION {[1..n -> Ranges(f)] : n \in 1..3} :
            \A i, j \in DOMAIN m : i # j => m[i] # m[j]}

\* the addresses segments ask for: in the kernel's stack area, in the hole
\* below 1 MiB, at 1 MiB, the same unaligned, the last page of the main
\* memory, in the firmware's memory, in the reserved range, above the RAM
SegAddrs == {524288, 655360, MiB, MiB + 2048, 8 * MiB - PAGE, 9 * MiB,
             10 * MiB, 24 * MiB}
\* the PE image base and entry point (RVA), the ELF entry point
ImgBase == 262144
PeEntry == 4096
ElfEntry == MiB

Segs(fmt) ==
    {[vaddr |-> IF fmt = "PE" THEN a - ImgBase ELSE a, memsz |-> n * PAGE] :
        a \in SegAddrs, n \in 1..MaxPages}

\* the kernel files: ELF64 and PE32+, their headers at the usual place or
\* at the end of the first 4096 bytes
FilesOf(fmt) ==
    {[fmt |-> fmt,
      entry |-> IF fmt = "PE" THEN PeEntry ELSE ElfEntry,
      img_base |-> IF fmt = "PE" THEN ImgBase ELSE 0,
      hdroff |-> h,
      segs |-> ss] :
        h \in {64, 4040},
        ss \in UNION {[1..n -> Segs(fmt)] : n \in 0..MaxSegs}}
KernelFiles == FilesOf("ELF") \cup FilesOf("PE")
\* loader_rpi.c: where an AArch64 Linux image goes
LinuxBase == 524288
\* the Linux images: fw_loadseg(0, file_size, 0x80000, file_size); a file
\* is a whole number of pages, or a byte more
LinuxFiles ==
    {[fmt |-> "LIN", entry |-> 0, img_base |-> 0, hdroff |-> 0,
      segs |-> <<[vaddr |-> LinuxBase, memsz |-> n * PAGE + x]>>] :
        n \in 1..MaxPages, x \in {0, 1}}

InitLoad ==
    /\ fw \in Firmwares
    /\ pc = "ld_setup"
    /\ mem = [sem |-> 0, alive |-> 0, wr |-> {}, mbi |-> "open"]
    /\ Cleared
    /\ MapInit
    /\ fwmap \in FwMaps(fw)
    /\ memmap = << >>
    /\ ram = 0
    /\ kfile \in KernelFiles \cup (IF fw = "RPI" THEN LinuxFiles ELSE {})
    /\ kernel_entry = 0
    /\ ldlog = << >>
    /\ MbiIdle
    /\ CfgIdle
    /\ AcpiIdle
    /\ FatIdle
    /\ DtbIdle
    /\ EfiIdle

NextLoad ==
    \/ fw_loadsetup_mmap
    \/ fw_loadkernel_open
    \/ fw_loadkernel_seg
    \/ fw_loadkernel_end

SpecLoad == InitLoad /\ [][NextLoad]_vars

(***************************************************************************)
(* The Multiboot2 tags and the Linux zero page: fw_loadsetup,              *)
(* fw_loadmodules and fw_fini of loader_x86.c write the tag list into the  *)
(* buffer at tags_buf; tagmem holds the 32-bit words stored there, by      *)
(* address.  Text and table bytes are not kept: a word that was never      *)
(* stored, or was overwritten by them, reads as Garbage.                   *)
(***************************************************************************)
MULTIBOOT_TAG_TYPE_END == 0
MULTIBOOT_TAG_TYPE_CMDLINE == 1
MULTIBOOT_TAG_TYPE_BOOT_LOADER_NAME == 2
MULTIBOOT_TAG_TYPE_MODULE == 3
MULTIBOOT_TAG_TYPE_MMAP == 6
MULTIBOOT_TAG_TYPE_FRAMEBUFFER == 8
MULTIBOOT_TAG_TYPE_EFI64 == 12
MULTIBOOT_TAG_TYPE_SMBIOS == 13
MULTIBOOT_TAG_TYPE_ACPI_OLD == 14
MULTIBOOT_TAG_TYPE_ACPI_NEW == 15
MULTIBOOT_TAG_TYPE_EFI64_IH == 20
MULTIBOOT_TAG_TYPE_EDID == 256
MULTIBOOT_TAG_TYPE_SMP == 257
MULTIBOOT_TAG_TYPE_PARTUUID == 258

Garbage == -1
Rdw(m, a) == IF a \in DOMAIN m THEN m[a] ELSE Garbage

\* size bytes are stored at a: the words w, everything else text
Store(m, a, size, w) ==
    [x \in (DOMAIN m \ {y \in DOMAIN m : a <= y /\ y < a + size})
              \cup DOMAIN w |->
        IF x \in DOMAIN w THEN w[x] ELSE m[x]]

\* (size + 7) & ~7 without the rounding
TagStep_unrounded(size) == size
\* tags_ptr += (size + 7) & ~7
TagStep(size) == ((size + 7) \div 8) * 8

\* a tag is stored at tags_ptr (t.p) and tags_ptr moves behind it
AddTag(t, type, size, w) ==
    [m |-> Store(t.m, t.p, size, (t.p :> type) @@ ((t.p + 4) :> size) @@ w),
     p |-> t.p + TagStep(size)]
AddIf(c, t, type, size) == IF c THEN AddTag(t, type, size, << >>) ELSE t

\* the configuration text lies at 0x20000 on BIOS, the tags behind it
TagsLow == 131072
ConfSize == 64
\* the pages AllocatePages gives fw_loadsetup for the tags on UEFI
EfiTags == 48 * MiB
\* the Linux zero page on BIOS
ZeroPageBios == 589824

\* tags_buf after fw_loadconfig and the allocation in fw_loadsetup
TagsBuf(f, b, ok) ==
    IF f = "BIOS" THEN TagsLow + TagStep(ConfSize)
    ELSE IF b = 0 THEN (IF ok THEN EfiTags ELSE 0)
    ELSE TagsLow

\* system tables: bios_systables, efi_systables
SysTags(h, t) ==
    AddIf(h.acpi = "new",
          AddIf(h.acpi = "old",
                AddIf(h.smbios > 0, t, MULTIBOOT_TAG_TYPE_SMBIOS, 16 + h.smbios),
                MULTIBOOT_TAG_TYPE_ACPI_OLD, 8 + 24),
          MULTIBOOT_TAG_TYPE_ACPI_NEW, 8 + 36)

\* the memory map tag: sizeof(multiboot_tag_mmap_t) + num_memmap * 24
MmapTag(h, t) == AddIf(h.nmap > 0, t, MULTIBOOT_TAG_TYPE_MMAP, 16 + h.nmap * 24)

\* the tags of fw_loadsetup: MBI header, loader name, command line, and on
\* BIOS the system tables and the memory map
SetupTags(f, b, h, cmd, tb, m) ==
    IF tb = 0 THEN [m |-> m, p |-> 0]
    ELSE LET hdr == [m |-> Store(m, tb, 8, (tb :> 0) @@ ((tb + 4) :> 0)),
                     p |-> tb + 8]
             name == AddTag(hdr, MULTIBOOT_TAG_TYPE_BOOT_LOADER_NAME,
                            IF b = 1 THEN 28 ELSE 19, << >>)
             line == AddIf(cmd >= 0, name, MULTIBOOT_TAG_TYPE_CMDLINE, 9 + cmd)
         IN  IF f = "BIOS" THEN MmapTag(h, SysTags(h, line))
             ELSE SysTags(h, line)

\* the command line lengths (-1: no kernel line), the module path lengths, the file sizes and
\* the uncompressed sizes (0: not compressed) of the model
CmdLens == {-1, 5}
NameLens == {1, 8}
FileSizes == {100}
Uncomp == {0, 8192}

\* fw_loadconfig's outcome (command line, multicore) and fw_loadsetup
fw_loadsetup_tags ==
    /\ pc = "mb_setup"
    /\ \E cmd \in CmdLens, mc \in {0, 1}, ok \in BOOLEAN :
          \E tb \in {TagsBuf(fw, bkp, ok)} :
             \E t \in {SetupTags(fw, bkp, hw, cmd, tb, tagmem)} :
                /\ tags_buf' = tb
                /\ tags_ptr' = t.p
                /\ tagmem' = t.m
                /\ smp' = mc
    /\ file_buf' = (IF fw = "BIOS" THEN MiB ELSE file_buf)
    /\ mods' = 0
    /\ modlist' = << >>
    /\ pc' = "mb_kernel"
    /\ UNCHANGED <<fw, bkp, rq, key, nkeys, rd, rpc, kern, seg, nagain, bsp,
                   ap, mem, hist>>
    /\ UNCHANGED <<ptm, heap, calls, loadvars>>
    /\ UNCHANGED <<hw, initrd, zero_page, dsdt_ptr>>
    /\ UNCHANGED restMbi

\* fw_loadkernel as far as the tags and the zero page go: the kind of the
\* kernel; for Linux the zero page is allocated if there is none and cleared
fw_loadkernel_mode ==
    /\ pc = "mb_kernel"
    /\ \E mode \in {"MB64", "MB32", "LIN"} :
          /\ kern' = [kern EXCEPT !.mode = mode]
          /\ smp' = (IF mode # "MB64" THEN 0 ELSE smp)
          /\ zero_page' = (IF mode = "LIN"
                           THEN [NoZero EXCEPT !.at =
                                   IF zero_page.at # 0 THEN zero_page.at
                                   ELSE IF fw = "UEFI" THEN heap
                                   ELSE ZeroPageBios]
                           ELSE zero_page)
          /\ heap' = (IF mode = "LIN" /\ zero_page.at = 0 /\ fw = "UEFI"
                      THEN heap + PAGE ELSE heap)
    /\ pc' = "mb_modules"
    /\ UNCHANGED <<fw, bkp, rq, key, nkeys, rd, rpc, seg, mods, nagain, bsp,
                   ap, mem, hist>>
    /\ UNCHANGED <<ptm, file_buf, calls, loadvars>>
    /\ UNCHANGED <<hw, tags_buf, tags_ptr, tagmem, initrd, modlist, dsdt_ptr>>
    /\ UNCHANGED restMbi

\* the buffers of a module: ptr is where its bytes end up
ModBufs(f, st, fsz, unc) ==
    IF f = "UEFI"
    THEN [unc_buf |-> IF unc > 0 THEN st.hp ELSE 0,
          mod_buf |-> st.hp + PageUp(unc),
          fb |-> st.fb,
          hp |-> st.hp + PageUp(unc) + PageUp(fsz)]
    ELSE [unc_buf |-> IF unc > 0 THEN st.fb ELSE 0,
          mod_buf |-> st.fb + PageUp(unc),
          fb |-> IF unc > 0 THEN st.fb + PageUp(unc)
                 ELSE st.fb + PageUp(fsz),
          hp |-> st.hp]

\* the body of ldinitrd for a file that opens: the module is read (and
\* uncompressed); a DTB, DSDT or GUDT becomes the replacement DSDT, anything
\* else gets a module tag, and the first such tag is remembered in initrd
LoadModule(f, st, len, fsz, unc, kind) ==
    LET b == ModBufs(f, st, fsz, unc)
        start == IF b.unc_buf # 0 THEN b.unc_buf ELSE b.mod_buf
        end == IF b.unc_buf # 0 THEN b.unc_buf + unc ELSE b.mod_buf + fsz
    IN  IF kind = "dsdt"
        THEN [st EXCEPT !.fb = b.fb, !.hp = b.hp, !.dsdt = start]
        ELSE IF st.t.p = 0
        THEN [st EXCEPT !.fb = b.fb, !.hp = b.hp,
                        !.list = Append(@, [start |-> start, end |-> end])]
        ELSE [st EXCEPT !.fb = b.fb, !.hp = b.hp,
                        !.t = AddTag(@, MULTIBOOT_TAG_TYPE_MODULE, 16 + len + 1,
                                     ((@.p + 8) :> start) @@ ((@.p + 12) :> end)),
                        !.initrd = IF @ = 0 THEN st.t.p ELSE @,
                        !.list = Append(@, [start |-> start, end |-> end])]

ModState ==
    [t |-> [m |-> tagmem, p |-> tags_ptr], fb |-> file_buf, hp |-> heap,
     initrd |-> initrd, list |-> modlist, dsdt |-> dsdt_ptr]

ModStore(st) ==
    /\ tagmem' = st.t.m
    /\ tags_ptr' = st.t.p
    /\ file_buf' = st.fb
    /\ heap' = st.hp
    /\ initrd' = st.initrd
    /\ modlist' = st.list
    /\ dsdt_ptr' = st.dsdt

\* one module line of the configuration; fw_read may see a key press
fw_loadmodules_tag ==
    /\ pc = "mb_modules"
    /\ rq = 0 /\ mods < MaxMods
    /\ \E len \in NameLens, fsz \in FileSizes, unc \in Uncomp,
          kind \in {"mod", "dsdt"} :
          ModStore(LoadModule(fw, ModState, len, fsz, unc, kind))
    /\ \E k \in BOOLEAN : rq' = IF k /\ bkp = 0 THEN 1 ELSE rq
    /\ mods' = mods + 1
    /\ UNCHANGED <<fw, pc, bkp, key, nkeys, rd, rpc, kern, seg, smp, nagain,
                   bsp, ap, mem, hist>>
    /\ UNCHANGED <<ptm, calls, loadvars>>
    /\ UNCHANGED <<hw, tags_buf, zero_page>>
    /\ UNCHANGED restMbi

\* the end of fw_loadmodules: if no module was loaded the default initrd
\* (ibmpc/initrd, in backup mode ibmpc/initrd.bak) is tried
fw_loadmodules_end ==
    /\ pc = "mb_modules"
    /\ \E found \in BOOLEAN :
          IF modlist = << >> /\ found
          THEN ModStore(LoadModule(fw, ModState, IF bkp = 1 THEN 16 ELSE 12,
                                   100, 0, "mod"))
          ELSE ModStore(ModState)
    /\ pc' = "mb_after"
    /\ UNCHANGED <<fw, bkp, rq, key, nkeys, rd, rpc, kern, seg, mods, smp,
                   nagain, bsp, ap, mem, hist>>
    /\ UNCHANGED <<ptm, calls, loadvars>>
    /\ UNCHANGED <<hw, tags_buf, zero_page>>
    /\ UNCHANGED restMbi

\* if(!bkp && rq) { bkp++; rq = 0; goto again; }
again_tags ==
    /\ pc = "mb_after"
    /\ bkp = 0 /\ rq = 1
    /\ bkp' = 1
    /\ rq' = 0
    /\ pc' = "mb_setup"
    /\ UNCHANGED <<fw, key, nkeys, rd, rpc, kern, seg, mods, smp, nagain,
                   bsp, ap, mem, hist>>
    /\ UNCHANGED auxvars

\* the tags of fw_fini: framebuffer, EDID, SMP, partition UUIDs, on UEFI
\* the memory map and the two EFI pointers, then the terminator
FiniTags(f, h, mc, t) ==
    LET fbt == AddIf(h.fb, t, MULTIBOOT_TAG_TYPE_FRAMEBUFFER, 40)
        edid == IF h.edid > 0
                THEN [m |-> AddTag(fbt, MULTIBOOT_TAG_TYPE_EDID,
                                   h.edid + 8, << >>).m,
                      p |-> fbt.p + ((h.edid + 15) \div 8) * 8]
                ELSE fbt
        uuid == AddTag(AddIf(mc = 1, edid, MULTIBOOT_TAG_TYPE_SMP, 20),
                       MULTIBOOT_TAG_TYPE_PARTUUID, 24, << >>)
        efi == IF f = "UEFI"
               THEN AddTag(AddTag(MmapTag(h, uuid),
                                  MULTIBOOT_TAG_TYPE_EFI64, 16, << >>),
                           MULTIBOOT_TAG_TYPE_EFI64_IH, 16, << >>)
               ELSE uuid
    IN  AddTag(efi, MULTIBOOT_TAG_TYPE_END, 8, << >>)

\* fw_fini: the tag list is closed and total_size stored; for a Linux
\* kernel the ramdisk fields of the zero page are taken from initrd
fw_fini_tags ==
    /\ pc = "mb_after"
    /\ ~(bkp = 0 /\ rq = 1)
    /\ \E t \in {IF tags_ptr = 0 THEN [m |-> tagmem, p |-> 0]
                 ELSE FiniTags(fw, hw, smp, [m |-> tagmem, p |-> tags_ptr])} :
          \E m \in {IF tags_ptr = 0 THEN t.m
                    ELSE Store(t.m, tags_buf, 4, tags_buf :> (t.p - tags_buf))} :
             /\ tagmem' = m
             /\ tags_ptr' = t.p
             /\ tags_buf' = (IF tags_ptr = 0 THEN 0 ELSE tags_buf)
             /\ zero_page' =
                   (IF kern.mode = "LIN" /\ zero_page.at # 0 /\ initrd # 0
                    THEN [zero_page EXCEPT
                            !.ramdisk_image = Rdw(m, initrd + 8),
                            !.ramdisk_size = Rdw(m, initrd + 12)
                                               - Rdw(m, initrd + 8)]
                    ELSE zero_page)
    /\ pc' = "mb_handover"
    /\ UNCHANGED <<fw, bkp, rq, key, nkeys, rd, rpc, kern, seg, mods, smp,
                   nagain, bsp, ap, mem, hist>>
    /\ UNCHANGED <<mapvars, loadvars>>
    /\ UNCHANGED <<hw, initrd, modlist, dsdt_ptr>>
    /\ UNCHANGED restMbi

\* what the machine has: SMBIOS entry point length (0: none), the RSDP,
\* the number of memory map entries, a framebuffer, the EDID size
Machines ==
    {h \in [smbios : {0, 31}, acpi : {"none", "old", "new"}, nmap : {0, 2},
            fb : BOOLEAN, edid : {0, 128}] : h.edid > 0 => h.fb}

InitMbi ==
    /\ fw \in {"BIOS", "UEFI"}
    /\ pc = "mb_setup"
    /\ mem = [sem |-> 0, alive |-> 0, wr |-> {}, mbi |-> "open"]
    /\ Cleared
    /\ MapInit
    /\ LoadIdle
    /\ hw \in Machines
    /\ tags_buf = 0
    /\ tags_ptr = 0
    /\ tagmem = << >>
    /\ initrd = 0
    /\ zero_page = NoZero
    /\ modlist = << >>
    /\ dsdt_ptr = 0
    /\ CfgIdle
    /\ AcpiIdle
    /\ FatIdle
    /\ DtbIdle
    /\ EfiIdle

NextMbi ==
    \/ fw_loadsetup_tags
    \/ fw_loadkernel_mode
    \/ fw_loadmodules_tag
    \/ fw_loadmodules_end
    \/ again_tags
    \/ fw_fini_tags

SpecMbi == InitMbi /\ [][NextMbi]_vars

(***************************************************************************)
(* The configuration: fw_loadconfig and fw_loadmodules of loader_x86.c     *)
(* each go over the lines of the text.  A line is its first word, cmd,     *)
(* and the words after it, args; cmd is kept as the keywords it is made    *)
(* of, so that <<"backup", "kernel">> is the word backupkernel and         *)
(* <<"backup">> followed by the argument kernel is the line that has a     *)
(* space between the two.                                                  *)
(***************************************************************************)
\* largest number of lines of the configuration
MaxLines == 3

\* l = !memcmp(s, "backup", 6)
IsBackup(ln) == ln.cmd[1] = "backup"
\* if(bkp ^ l) the line is skipped
Skipped(b, ln) == (b = 1) # IsBackup(ln)
\* else if(bkp & l) s += 6: what s points at; << >> if that is the space
\* behind the word
Rest(b, ln) == IF b = 1 /\ IsBackup(ln) THEN Tail(ln.cmd) ELSE ln.cmd
\* !memcmp(s, kw, strlen(kw))
Is(w, kw) == w # << >> /\ w[1] = kw

\* what fw_init leaves: kernel = cmdline = NULL, verbose = 0, smp = 0
CfgCleared ==
    [kernel |-> "", cmdline |-> "", smp |-> 0, verbose |-> 0, m |-> 0,
     mods |-> << >>]

\* the first word of the arguments as a number: getint
getint(w) == IF w = "2" THEN 2 ELSE 0

\* one line of fw_loadconfig's loop (framebuffer and bootsplash lines store
\* into variables of their own the way verbose does and are left out)
ConfigLine(b, ln, st) ==
    LET w == Rest(b, ln)
        mc == IF Is(w, "multicore") THEN [st EXCEPT !.smp = 1] ELSE st
    IN  IF ln.args = << >> THEN mc
        ELSE IF Is(w, "menuentry") THEN [mc EXCEPT !.m = @ + 1]
        ELSE IF Is(w, "verbose") THEN [mc EXCEPT !.verbose = getint(ln.args[1])]
        ELSE IF Is(w, "kernel")
        THEN [mc EXCEPT !.kernel = ln.args[1],
                        !.cmdline = IF Len(ln.args) > 1 THEN ln.args[2] ELSE @]
        ELSE mc

\* if(++m > 1) break
Breaks(b, ln, st) ==
    /\ ~Skipped(b, ln)
    /\ ln.args # << >>
    /\ Is(Rest(b, ln), "menuentry")
    /\ st.m >= 1

\* the loop of fw_loadconfig from line i on
RECURSIVE ConfigLoop(_, _, _, _)
ConfigLoop(b, c, i, st) ==
    IF i > Len(c) THEN st
    ELSE IF Skipped(b, c[i]) THEN ConfigLoop(b, c, i + 1, st)
    ELSE IF Breaks(b, c[i], st) THEN st
    ELSE ConfigLoop(b, c, i + 1, ConfigLine(b, c[i], st))

defkernel == "kernel"

\* fw_loadconfig: kernel = NULL, smp = 0, the loop, the default kernel (m is
\* a local of the function)
LoadConfig(b, c, st) ==
    LET r == ConfigLoop(b, c, 1, [st EXCEPT !.kernel = "", !.smp = 0, !.m = 0])
    IN  [r EXCEPT !.kernel = IF @ = "" THEN defkernel ELSE @, !.m = 0]

\* the loop of fw_loadmodules from line i on; a key press seen while the
\* module of line stop is read ends it (stop = 0: no key)
RECURSIVE ModuleLoop(_, _, _, _, _)
ModuleLoop(b, c, i, stop, acc) ==
    IF i > Len(c) THEN acc
    ELSE IF c[i].args = << >> \/ Skipped(b, c[i])
    THEN ModuleLoop(b, c, i + 1, stop, acc)
    ELSE IF Is(Rest(b, c[i]), "module")
    THEN IF i = stop THEN Append(acc, c[i].args[1])
         ELSE ModuleLoop(b, c, i + 1, stop, Append(acc, c[i].args[1]))
    ELSE ModuleLoop(b, c, i + 1, stop, acc)

\* a key press counts at a module line that is read, in the primary pass
KeyStops(b, c, stop) ==
    /\ b = 0
    /\ stop \in 1..Len(c)
    /\ c[stop].args # << >>
    /\ ~Skipped(b, c[stop])
    /\ Is(Rest(b, c[stop]), "module")

fw_loadconfig_parse ==
    /\ pc = "cf_config"
    /\ parsed' = LoadConfig(bkp, conf, parsed)
    /\ pc' = "cf_modules"
    /\ UNCHANGED <<fw, bkp, rq, key, nkeys, rd, rpc, kern, seg, mods, smp,
                   nagain, bsp, ap, mem, hist>>
    /\ UNCHANGED <<mapvars, loadvars, mbivars, conf, acpivars, fatvars,
                   restFat>>

fw_loadmodules_parse ==
    /\ pc = "cf_modules"
    /\ \E stop \in 0..Len(conf) :
          /\ stop # 0 => KeyStops(bkp, conf, stop)
          /\ parsed' = [parsed EXCEPT !.mods = ModuleLoop(bkp, conf, 1, stop, << >>)]
          /\ rq' = IF stop # 0 THEN 1 ELSE rq
    /\ pc' = "cf_done"
    /\ UNCHANGED <<fw, bkp, key, nkeys, rd, rpc, kern, seg, mods, smp,
                   nagain, bsp, ap, mem, hist>>
    /\ UNCHANGED <<mapvars, loadvars, mbivars, conf, acpivars, fatvars,
                   restFat>>

\* if(!bkp && rq) { bkp++; rq = 0; goto again; }
again_cfg ==
    /\ pc = "cf_done"
    /\ bkp = 0 /\ rq = 1
    /\ bkp' = 1
    /\ rq' = 0
    /\ pc' = "cf_config"
    /\ UNCHANGED <<fw, key, nkeys, rd, rpc, kern, seg, mods, smp, nagain,
                   bsp, ap, mem, hist>>
    /\ UNCHANGED auxvars

\* the lines of the model
CfgLines ==
    {[cmd |-> <<"kernel">>, args |-> <<"k1">>],
     [cmd |-> <<"kernel">>, args |-> <<"k1", "quiet">>],
     [cmd |-> <<"backup", "kernel">>, args |-> <<"k2">>],
     [cmd |-> <<"backup", "kernel">>, args |-> <<"k2", "safe">>],
     [cmd |-> <<"backup">>, args |-> <<"kernel", "k3">>],
     [cmd |-> <<"module">>, args |-> <<"m1">>],
     [cmd |-> <<"backup", "module">>, args |-> <<"m2">>],
     [cmd |-> <<"backup">>, args |-> <<"module", "m3">>],
     [cmd |-> <<"multicore">>, args |-> << >>],
     [cmd |-> <<"backup", "multicore">>, args |-> << >>],
     [cmd |-> <<"verbose">>, args |-> <<"2">>],
     [cmd |-> <<"menuentry">>, args |-> <<"e">>]}

Configs == UNION {[1..n -> CfgLines] : n \in 0..MaxLines}

InitCfg ==
    /\ fw \in {"BIOS", "UEFI"}
    /\ pc = "cf_config"
    /\ mem = [sem |-> 0, alive |-> 0, wr |-> {}, mbi |-> "open"]
    /\ Cleared
    /\ MapInit
    /\ LoadIdle
    /\ MbiIdle
    /\ conf \in Configs
    /\ parsed = CfgCleared
    /\ AcpiIdle
    /\ FatIdle
    /\ DtbIdle
    /\ EfiIdle

NextCfg ==
    \/ fw_loadconfig_parse
    \/ fw_loadmodules_parse
    \/ again_cfg

SpecCfg == InitCfg /\ [][NextCfg]_vars

(***************************************************************************)
(* The ACPI patch of fw_fini (loader_x86.c): a DSDT, GUDT or DTB loaded as *)
(* a module replaces the one the FADT points to.  Of the table the model   *)
(* keeps the header fields size, rev and chksum, the fields dsdt and       *)
(* x_dsdt, and the sum of all its other bytes, rest.                       *)
(***************************************************************************)
\* sizeof(fadt_t); x_dsdt is its last member, at offset 140
SizeofFadt == 148

\* the sum of the four bytes of a 32-bit value
BSum(v) ==
    (v % 256) + ((v \div 256) % 256) + ((v \div 65536) % 256)
        + ((v \div 16777216) % 256)

\* for(s = 0, i = 0; i < (int)fadt->hdr.size; i++) s += ((uint8_t*)fadt)[i]
\* with s an uint8_t; the magic is "FACP"
TableSum(t) ==
    (70 + 65 + 67 + 80 + BSum(t.size) + t.rev + t.chksum + t.rest
       + BSum(t.dsdt)
       + (IF t.size >= SizeofFadt THEN BSum(t.x_dsdt) ELSE 0)) % 256

\* found FADT, patch DSDT addresses and recalculate checksum
PatchFadt(t, p) ==
    LET a == [t EXCEPT !.dsdt = p,
                       !.x_dsdt = IF t.rev >= 2 /\ t.size > SizeofFadt
                                  THEN p ELSE @,
                       !.chksum = 0]
    IN  [a EXCEPT !.chksum = (256 - TableSum(a)) % 256]

\* where the replacement may have been loaded
DsdtAddrs == {MiB, 19088743}

\* fw_loadmodules: a module that starts with a DSDT, GUDT or DTB magic
\* becomes the replacement
fw_loadmodules_dsdt ==
    /\ pc = "ac_modules"
    /\ \E p \in DsdtAddrs \cup {0} : dsdt_ptr' = (IF p = 0 THEN dsdt_ptr ELSE p)
    /\ pc' = "ac_fini"
    /\ UNCHANGED <<fw, bkp, rq, key, nkeys, rd, rpc, kern, seg, mods, smp,
                   nagain, bsp, ap, mem, hist>>
    /\ UNCHANGED <<mapvars, loadvars, cfgvars, acpivars, fatvars,
                   restFat>>
    /\ UNCHANGED <<hw, tags_buf, tags_ptr, tagmem, initrd, zero_page, modlist>>

\* fw_fini: the FADT is looked up through the ACPI tag and patched
fw_fini_acpi ==
    /\ pc = "ac_fini"
    /\ fadt' = (IF dsdt_ptr # 0 THEN PatchFadt(fadt, dsdt_ptr) ELSE fadt)
    /\ pc' = "ac_done"
    /\ UNCHANGED <<fw, bkp, rq, key, nkeys, rd, rpc, kern, seg, mods, smp,
                   nagain, bsp, ap, mem, hist>>
    /\ UNCHANGED <<mapvars, loadvars, mbivars, cfgvars, fatvars,
                   restFat>>

\* the tables of the model: ACPI 1.0 (116 bytes), the table fb_systables
\* makes (rev 2, sizeof(fadt_t) bytes), ACPI 2.0 and later (244 bytes)
Fadts ==
    [rev : {1, 2, 3}, size : {116, SizeofFadt, 244}, chksum : {0, 13},
     dsdt : {917504}, x_dsdt : {0, 917504}, rest : {0, 77, 255}]

InitAcpi ==
    /\ fw \in {"BIOS", "UEFI"}
    /\ pc = "ac_modules"
    /\ mem = [sem |-> 0, alive |-> 0, wr |-> {}, mbi |-> "open"]
    /\ Cleared
    /\ MapInit
    /\ LoadIdle
    /\ MbiIdle
    /\ CfgIdle
    /\ fadt \in Fadts
    /\ FatIdle
    /\ DtbIdle
    /\ EfiIdle

NextAcpi ==
    \/ fw_loadmodules_dsdt
    \/ fw_fini_acpi

SpecAcpi == InitAcpi /\ [][NextAcpi]_vars

(***************************************************************************)
(* The FAT32 reader: bios_nextclu, bios_open and bios_read of loader_x86.c *)
(* (loader_rpi.c and loader_cb.c have the same code as fw_nextclu, fw_open *)
(* and fw_read).  A volume is its sectors per cluster, the cluster chain   *)
(* of the directory that holds the file, the chain of the file and the     *)
(* file's size.  What lands in the caller's buffer is kept as the list of  *)
(* the pieces copied there: sector, first byte, number of bytes.           *)
(***************************************************************************)
\* largest number of clusters of a file
MaxChain == 3
\* sectors between the start of the disk and cluster 2 of the volume
DataStart == 4096
\* the FAT entries the cache holds: uint32_t fat[1024]
FatWindow == 1024
\* the smallest end of chain mark: 0x0FFFFFF8
MinEOC == 268435448
\* the end of chain mark of the volumes of the model: 0x0FFFFFFF
EOC == MinEOC + 7
SectorSize == 512

\* the entry of cluster c in the FAT of volume v
RECURSIVE Link(_, _, _)
Link(ch, c, i) ==
    IF i > Len(ch) THEN 0
    ELSE IF ch[i] = c THEN (IF i = Len(ch) THEN EOC ELSE ch[i + 1])
    ELSE Link(ch, c, i + 1)
FatEntry(v, c) ==
    IF Link(v.chain, c, 1) # 0 THEN Link(v.chain, c, 1) ELSE Link(v.dir, c, 1)

\* data_lba = spf32 * nf + rsc - 2 * spc + the start of the partition
data_lba(v) == DataStart - 2 * v.spc

\* the window stays where it is
CacheBase_kept(clu, fc) == fc
\* if(clu < fat_cache || clu > fat_cache + 1023) fat_cache = clu & ~1023
CacheBase(clu, fc) ==
    IF clu < fc \/ clu > fc + (FatWindow - 1)
    THEN (clu \div FatWindow) * FatWindow
    ELSE fc

\* bios_nextclu: the cluster after clu (0: none) and the cache window;
\* the window holds the entries fat_cache .. fat_cache + 1023
bios_nextclu(v, fc, clu) ==
    IF clu < 2 \/ clu >= MinEOC THEN [clu |-> 0, fc |-> fc]
    ELSE LET base == CacheBase(clu, fc)
             e == IF clu - base \in 0..(FatWindow - 1)
                  THEN FatEntry(v, clu) ELSE 0
         IN  [clu |-> IF e < 2 \/ e >= MinEOC THEN 0 ELSE e, fc |-> base]

\* the cache window after bios_open went over the first k clusters of the
\* directory
RECURSIVE DirWalk(_, _, _, _)
DirWalk(v, fc, i, k) ==
    IF i > k THEN fc
    ELSE DirWalk(v, bios_nextclu(v, fc, v.dir[i]).fc, i + 1, k)

NoFr ==
    [file_clu |-> 0, file_size |-> 0, fat_cache |-> 0, clu |-> 0,
     secleft |-> 0, lba |-> 0, rem |-> 0, rs |-> 0, size |-> 0,
     offs |-> 0, os |-> 0, buf |-> << >>, ret |-> 0]

\* bios_open: the entry of the file is found in the k-th cluster of its
\* directory
bios_open ==
    /\ pc = "ft_open"
    /\ \E k \in 1..Len(vol.dir) :
          fr' = [fr EXCEPT !.fat_cache = DirWalk(vol, fr.fat_cache, 1, k),
                           !.file_clu = vol.chain[1],
                           !.file_size = vol.size]
    /\ pc' = "ft_read"
    /\ UNCHANGED <<fw, bkp, rq, key, nkeys, rd, rpc, kern, seg, mods, smp,
                   nagain, bsp, ap, mem, hist>>
    /\ UNCHANGED <<mapvars, loadvars, mbivars, cfgvars, acpivars, vol,
                   restFat>>

\* while(nc-- && clu) clu = bios_nextclu(clu)
RECURSIVE Skip(_, _, _)
Skip(v, f, nc) ==
    IF nc = 0 \/ f.clu = 0 THEN f
    ELSE Skip(v, [f EXCEPT !.clu = bios_nextclu(v, f.fat_cache, f.clu).clu,
                           !.fat_cache = bios_nextclu(v, f.fat_cache, f.clu).fc],
              nc - 1)

\* if(offs): the cluster, the sector in it and the byte in the sector
Seek(v, f, offs) ==
    IF offs = 0 THEN f
    ELSE [Skip(v, f, offs \div (v.spc * SectorSize))
            EXCEPT !.os = offs % SectorSize,
                   !.rs = SectorSize - (offs % SectorSize),
                   !.secleft = (v.spc
                                - ((offs % (v.spc * SectorSize)) \div SectorSize)
                                - 1) % 256]

\* lba = clu * bpb->spc + ns - 1 + data_lba
SeekLba(v, f, offs) ==
    IF offs = 0 THEN 0
    ELSE f.clu * v.spc + ((offs % (v.spc * SectorSize)) \div SectorSize) - 1
         + data_lba(v)

\* the reads asked of a file: all of it, more than all of it, and from
\* inside a sector and from the second cluster on, a few bytes and up to
\* the end
Reads(v) ==
    {[offs |-> 0, size |-> n] : n \in {v.size, v.size + 1}}
    \cup {[offs |-> o, size |-> n] :
            o \in {x \in {SectorSize + 1, v.spc * SectorSize} : x < v.size},
            n \in {4, v.size}}

\* bios_read(offs, size, buf) up to its loop
bios_read_enter ==
    /\ pc = "ft_read"
    /\ \E r \in Reads(vol) :
       \E size \in {IF r.offs + r.size > fr.file_size
                    THEN fr.file_size - r.offs ELSE r.size} :
       \E f \in {Seek(vol, [fr EXCEPT !.clu = fr.file_clu,
                                      !.secleft = 0,
                                      !.lba = 0,
                                      !.os = 0,
                                      !.rs = SectorSize,
                                      !.offs = r.offs,
                                      !.size = size,
                                      !.rem = size,
                                      !.buf = << >>], r.offs)} :
          IF f.clu = 0
          THEN /\ fr' = [f EXCEPT !.ret = 0]
               /\ pc' = "ft_ret"
          ELSE /\ fr' = [f EXCEPT !.lba = SeekLba(vol, f, r.offs)]
               /\ pc' = "ft_loop"
    /\ UNCHANGED <<fw, bkp, rq, key, nkeys, rd, rpc, kern, seg, mods, smp,
                   nagain, bsp, ap, mem, hist>>
    /\ UNCHANGED <<mapvars, loadvars, mbivars, cfgvars, acpivars, vol,
                   restFat>>

\* the sector the loop turns to: the next of the cluster, or the first of
\* the next cluster
NextSector(v, f) ==
    IF f.secleft # 0
    THEN [f EXCEPT !.secleft = @ - 1, !.lba = @ + 1]
    ELSE \* uint8_t secleft = bpb->spc - 1
         [f EXCEPT !.secleft = (v.spc - 1) % 256,
                   !.lba = f.clu * v.spc + data_lba(v),
                   !.clu = bios_nextclu(v, f.fat_cache, f.clu).clu,
                   !.fat_cache = bios_nextclu(v, f.fat_cache, f.clu).fc]

\* one turn of while(rem && !rq): a sector is read, whole into the buffer
\* or by way of data
bios_read_sector ==
    /\ pc = "ft_loop"
    /\ fr.rem # 0 /\ rq = 0
    /\ ~(fr.secleft = 0 /\ fr.clu = 0)
    /\ \E f \in {NextSector(vol, fr)} :
          \E n \in {IF f.rs > f.rem THEN f.rem ELSE f.rs} :
             fr' = [f EXCEPT !.buf = Append(@, [lba |-> f.lba, from |-> f.os,
                                                 len |-> n]),
                             !.rem = @ - n,
                             !.os = 0,
                             !.rs = SectorSize]
    /\ UNCHANGED <<fw, pc, bkp, rq, key, nkeys, rd, rpc, kern, seg, mods, smp,
                   nagain, bsp, ap, mem, hist>>
    /\ UNCHANGED <<mapvars, loadvars, mbivars, cfgvars, acpivars, vol,
                   restFat>>

\* the loop ends: return (size - rem)
bios_read_return ==
    /\ pc = "ft_loop"
    /\ fr.rem = 0 \/ rq # 0 \/ (fr.secleft = 0 /\ fr.clu = 0)
    /\ fr' = [fr EXCEPT !.ret = fr.size - fr.rem]
    /\ pc' = "ft_ret"
    /\ UNCHANGED <<fw, bkp, rq, key, nkeys, rd, rpc, kern, seg, mods, smp,
                   nagain, bsp, ap, mem, hist>>
    /\ UNCHANGED <<mapvars, loadvars, mbivars, cfgvars, acpivars, vol,
                   restFat>>

\* the clusters of the model: both sides of two window borders
FileClusters == {3, 4, 1023, 1024, 2048}
DirChains == {<<2>>, <<2, 1025>>, <<2, 2049>>}
Chains ==
    {ch \in UNION {[1..n -> FileClusters] : n \in 1..MaxChain} :
        \A i, j \in DOMAIN ch : i # j => ch[i] # ch[j]}
\* the sizes of a file of n clusters: one byte, a sector and a byte, all
\* but one byte, all of the last cluster
SizesOf(spc, n) ==
    {(n - 1) * spc * SectorSize + x :
        x \in {1, spc * SectorSize - 1, spc * SectorSize}
              \cup (IF spc > 1 THEN {SectorSize + 1} ELSE {})}
VolumesOf(spc, ch) ==
    {[spc |-> spc, dir |-> d, chain |-> ch, size |-> s] :
        d \in DirChains, s \in SizesOf(spc, Len(ch))}
Volumes == UNION {VolumesOf(spc, ch) : spc \in {1, 2, 4}, ch \in Chains}

InitFat ==
    /\ fw \in {"BIOS", "RPI", "CB"}
    /\ pc = "ft_open"
    /\ mem = [sem |-> 0, alive |-> 0, wr |-> {}, mbi |-> "open"]
    /\ Cleared
    /\ MapInit
    /\ LoadIdle
    /\ MbiIdle
    /\ CfgIdle
    /\ AcpiIdle
    /\ DtbIdle
    /\ EfiIdle
    /\ vol \in Volumes
    /\ fr = NoFr

NextFat ==
    \/ bios_open
    \/ bios_read_enter
    \/ bios_read_sector
    \/ bios_read_return

SpecFat == InitFat /\ [][NextFat]_vars

(***************************************************************************)
(* The device tree patch of fw_fini (loader_rpi.c).  The memory from       *)
(* dtb_base on is a sequence of bytes, address a at index a + 1; the blob  *)
(* is at its start and spare memory follows.  A command line is the        *)
(* sequence of its characters; the empty one stands for cmdline = NULL     *)
(* too, which the code treats alike.                                       *)
(***************************************************************************)
\* spare bytes after the room a patched blob needs
DtbSlack == 48
\* the tokens of the structure block
FDT_BEGIN_NODE == 1
FDT_END_NODE == 2
FDT_PROP == 3
FDT_END == 9

Zeros(n) == [i \in 1..n |-> 0]
Up4(n) == ((n + 3) \div 4) * 4
Pad4(s) == s \o Zeros(Up4(Len(s)) - Len(s))
BE32(n) == <<0, (n \div 65536) % 256, (n \div 256) % 256, n % 256>>
\* "chosen" and "bootargs" with their terminators
chosen == <<99, 104, 111, 115, 101, 110, 0>>
bootargs == <<98, 111, 111, 116, 97, 114, 103, 115, 0>>

\* the byte at address a; memory past the model reads as anything but a
\* token
Byte(m, a) == IF a >= 0 /\ a < Len(m) THEN m[a + 1] ELSE 170
Sub(m, a, n) == [i \in 1..n |-> Byte(m, a + i - 1)]
\* p[3] | (p[2] << 8) | (p[1] << 16)
Word24(m, p) == Byte(m, p + 3) + Byte(m, p + 2) * 256 + Byte(m, p + 1) * 65536
\* p[3] | (p[2] << 8) | (p[1] << 16) | (p[0] << 24), bit 31 left out: no
\* token has it
Word(m, p) == Word24(m, p) + (Byte(m, p) % 128) * 16777216
\* the stores ws, each [at, bytes], made into memory m one after the other
Last(S) == CHOOSE k \in S : \A j \in S : j <= k
Hits(ws, a) == {k \in 1..Len(ws) : a >= ws[k].at /\ a < ws[k].at + Len(ws[k].bytes)}
Stores(m, ws) ==
    [i \in 1..Len(m) |->
        IF Hits(ws, i - 1) = {} THEN m[i]
        ELSE ws[Last(Hits(ws, i - 1))].bytes[i - ws[Last(Hits(ws, i - 1))].at]]
\* memcpy(dtb_base + a, bytes, Len(bytes))
Poke(m, a, bytes) == Stores(m, <<[at |-> a, bytes |-> bytes]>>)
\* memcpy(dst, src, n) with dst below src: byte by byte, upwards
MoveDown(m, dst, src, n) ==
    [i \in 1..Len(m) |->
        IF i - 1 >= dst /\ i - 1 < dst + n THEN Byte(m, src + (i - 1 - dst))
        ELSE m[i]]

\* the header fields the patch reads, three bytes each
Hdr(m) ==
    [totalsize |-> Word24(m, 4), off_dt |-> Word24(m, 8),
     off_str |-> Word24(m, 12), siz_str |-> Word24(m, 32),
     siz_dt |-> Word24(m, 36)]

\* for(l = p; p < end && *p; p++);
RECURSIVE NameEnd(_, _, _)
NameEnd(m, p, end) ==
    IF p < end /\ Byte(m, p) # 0 THEN NameEnd(m, p + 1, end) ELSE p

\* the property met is bootargs of chosen: l is the name of the node last
\* opened, -1 for NULL
Match(m, d) ==
    /\ Word24(m, d.p + 8) < d.siz_str - 1
    /\ d.l # -1
    /\ Sub(m, d.l, 7) = chosen
    /\ Sub(m, d.off_str + Word24(m, d.p + 8), 9) = bootargs
\* while(p < end) goes on: the token at p is not the end and not the
\* property looked for
Scanning(m, d) ==
    /\ d.p < d.off_dt + d.siz_dt
    /\ Word(m, d.p) # FDT_END
    /\ ~(Word(m, d.p) = FDT_PROP /\ Match(m, d))
\* one turn of the loop that does not leave it
Turn(m, d) ==
    IF Word(m, d.p) = FDT_BEGIN_NODE
    THEN [d EXCEPT !.p = Up4(NameEnd(m, d.p + 4, d.off_dt + d.siz_dt)),
                   !.l = d.p + 4]
    ELSE IF Word(m, d.p) = FDT_END_NODE
    THEN [d EXCEPT !.p = @ + 4, !.l = -1]
    ELSE IF Word(m, d.p) = FDT_PROP
    THEN [d EXCEPT !.p = Up4(d.p + 12 + Word24(m, d.p + 4))]
    ELSE [d EXCEPT !.p = @ + 4]
\* the loop left: cmd and ol where the property was found
Found(m, d) ==
    IF d.p < d.off_dt + d.siz_dt /\ Word(m, d.p) = FDT_PROP
    THEN [d EXCEPT !.cmd = d.p + 12, !.ol = Up4(Word24(m, d.p + 4))]
    ELSE d

\* cmd[3] = n & 0xff; cmd[2] = (n >> 8) & 0xff; cmd[1] = (n >> 8) & 0xff;
\* cmd[0] = 0
Enc(n) == <<0, (n \div 256) % 256, (n \div 256) % 256, n % 256>>
\* memcpy(cmd, cmdline, cl - 1); memset(cmd + cl - 1, 0, nl - cl + 1)
Value(c) == Pad4(c \o <<0>>)
\* the header written back: totalsize, off_str, siz_str, siz_dt
NewHeader(d) ==
    <<[at |-> 5, bytes |-> Tail(BE32(d.totalsize))],
      [at |-> 13, bytes |-> Tail(BE32(d.off_str))],
      [at |-> 33, bytes |-> Tail(BE32(d.siz_str))],
      [at |-> 37, bytes |-> Tail(BE32(d.siz_dt))]>>

\* the property was there: its length and value are overwritten
Update(m, d) ==
    Stores(m, <<[at |-> d.cmd - 8, bytes |-> Enc(d.cl)],
                [at |-> d.cmd, bytes |-> Value(d.cmdline)]>>
              \o NewHeader([d EXCEPT !.siz_dt = @ + d.nl - d.ol,
                                     !.totalsize = @ + d.nl - d.ol,
                                     !.off_str = @ + d.nl - d.ol]))
\* it was not: a chosen node with the property goes where the structure
\* block ended
AddNode(m, d) ==
    Stores(m, <<[at |-> d.cmd,
                 bytes |-> <<0, 0, 0, 1>> \o chosen \o <<0, 0, 0, 0, 3>>
                           \o Enc(d.cl) \o Enc(d.tag) \o Value(d.cmdline)
                           \o <<0, 0, 0, 2>>]>>
              \o NewHeader([d EXCEPT !.siz_dt = @ + d.nl + 28,
                                     !.totalsize = @ + d.nl + 28,
                                     !.off_str = @ + d.nl + 28]))

\* the locals once the header is read
Locals(m, c) ==
    Hdr(m) @@ [cmdline |-> c, cl |-> Len(c) + 1, nl |-> Up4(Len(c) + 1),
               cmd |-> -1, ol |-> 0, tag |-> 0, p |-> Hdr(m).off_dt,
               l |-> -1, stop |-> 0]

\* fw_fini reads the header of the blob
fw_fini_dtb ==
    /\ pc = "dt_fini"
    /\ dt' = Locals(dtb, dt.cmdline)
    /\ pc' = IF dt'.off_str >= dt'.off_dt + dt'.siz_dt THEN "dt_scan"
             ELSE "dt_done"
    /\ UNCHANGED dtb
    /\ UNCHANGED <<fw, bkp, rq, key, nkeys, rd, rpc, kern, seg, mods, smp,
                   nagain, bsp, ap, mem, hist>>
    /\ UNCHANGED <<mapvars, loadvars, mbivars, cfgvars, acpivars, fatvars,
                   efivars>>

\* one turn of while(p < end); once it is left, the patch up to the loop
\* that makes room, or to its end where the tail of the blob does not have
\* to move up
fw_fini_scan ==
    /\ pc = "dt_scan"
    /\ IF Scanning(dtb, dt)
       THEN /\ dt' = Turn(dtb, dt)
            /\ UNCHANGED <<pc, dtb>>
       ELSE \E d \in {Found(dtb, dt)} :
          IF d.cmd = -1
          THEN /\ dtb' = Poke(dtb, d.siz_str, bootargs)
               /\ dt' = [d EXCEPT !.tag = d.siz_str,
                                  !.siz_str = @ + 9,
                                  !.totalsize = @ + 9,
                                  !.cmd = d.off_dt + d.siz_dt,
                                  !.p = d.totalsize + 9,
                                  !.l = d.totalsize + 9 + d.nl + 28,
                                  !.stop = d.off_dt + d.siz_dt]
               /\ pc' = "dt_move"
          ELSE IF d.nl > d.ol
          THEN /\ dt' = [d EXCEPT !.p = d.totalsize,
                                  !.l = d.totalsize + d.nl - d.ol,
                                  !.stop = d.cmd + d.ol]
               /\ pc' = "dt_move"
               /\ UNCHANGED dtb
          ELSE /\ dtb' = Update(IF d.nl < d.ol
                                THEN MoveDown(dtb, d.cmd + d.nl, d.cmd + d.ol,
                                              d.totalsize - d.ol)
                                ELSE dtb, d)
               /\ dt' = d
               /\ pc' = "dt_done"
    /\ UNCHANGED <<fw, bkp, rq, key, nkeys, rd, rpc, kern, seg, mods, smp,
                   nagain, bsp, ap, mem, hist>>
    /\ UNCHANGED <<mapvars, loadvars, mbivars, cfgvars, acpivars, fatvars,
                   efivars>>

\* one turn of for(...; p >= stop; p++, l++) *l = *p, and what follows the
\* loop; a store past the memory of the model is where the model stops
fw_fini_shift ==
    /\ pc = "dt_move"
    /\ IF dt.p >= dt.stop
       THEN /\ dt.l < Len(dtb)
            /\ dtb' = [dtb EXCEPT ![dt.l + 1] = Byte(dtb, dt.p)]
            /\ dt' = [dt EXCEPT !.p = @ + 1, !.l = @ + 1]
            /\ pc' = pc
       ELSE /\ dtb' = IF dt.ol = 0 THEN AddNode(dtb, dt) ELSE Update(dtb, dt)
            /\ dt' = dt
            /\ pc' = "dt_done"
    /\ UNCHANGED <<fw, bkp, rq, key, nkeys, rd, rpc, kern, seg, mods, smp,
                   nagain, bsp, ap, mem, hist>>
    /\ UNCHANGED <<mapvars, loadvars, mbivars, cfgvars, acpivars, fatvars,
                   efivars>>

\* a text of n characters
Text(n) == [i \in 1..n |-> 97 + (i % 26)]
\* the strings block before the patch: one name, and bootargs where the
\* property is there
Names == <<120, 0>>
\* the structure block: the root, chosen (kind "node" or "prop"), a node
\* after it; old is the value of bootargs
Tree(kind, old) ==
    BE32(FDT_BEGIN_NODE) \o Zeros(4)
    \o (IF kind = "none" THEN << >>
        ELSE BE32(FDT_BEGIN_NODE) \o Pad4(chosen)
             \o (IF kind = "prop"
                 THEN BE32(FDT_PROP) \o BE32(Len(old)) \o BE32(Len(Names))
                      \o Pad4(old)
                 ELSE << >>)
             \o BE32(FDT_END_NODE))
    \o BE32(FDT_BEGIN_NODE) \o Pad4(<<109, 0>>) \o BE32(FDT_END_NODE)
    \o BE32(FDT_END_NODE) \o BE32(FDT_END)
Header(t, s) ==
    <<208, 13, 254, 237>> \o BE32(56 + Len(t) + Len(s)) \o BE32(56)
    \o BE32(56 + Len(t)) \o BE32(40) \o BE32(17) \o BE32(16) \o BE32(0)
    \o BE32(Len(s)) \o BE32(Len(t))
Blob(kind, old) ==
    Header(Tree(kind, old),
           IF kind = "prop" THEN Names \o bootargs ELSE Names)
    \o Zeros(16) \o Tree(kind, old)
    \o (IF kind = "prop" THEN Names \o bootargs ELSE Names)
\* the blobs of the model, and the command lines each is patched with
Blobs ==
    {Blob("none", << >>), Blob("node", << >>)}
    \cup {Blob("prop", Text(n) \o <<0>>) : n \in {0, 3, 7, 255}}
CmdLinesOf(b) ==
    {Text(n) : n \in IF Len(b) > 255 THEN {252, 255} ELSE {0, 2, 3, 7}}
\* the memory at dtb_base: the blob, the room the patch may take, spare
\* bytes
Memory(b, c) == b \o [i \in 1..(Up4(Len(c) + 1) + 37 + DtbSlack) |-> 170]

InitDtb ==
    /\ fw = "RPI"
    /\ pc = "dt_fini"
    /\ mem = [sem |-> 0, alive |-> 0, wr |-> {}, mbi |-> "open"]
    /\ Cleared
    /\ MapInit
    /\ LoadIdle
    /\ MbiIdle
    /\ CfgIdle
    /\ AcpiIdle
    /\ FatIdle
    /\ EfiIdle
    /\ \E b \in Blobs : \E c \in CmdLinesOf(b) :
          /\ dtb = Memory(b, c)
          /\ dt = [cmdline |-> c]

NextDtb ==
    \/ fw_fini_dtb
    \/ fw_fini_scan
    \/ fw_fini_shift

SpecDtb == InitDtb /\ [][NextDtb]_vars
\* fw_fini runs on once entered
SpecDtbLive == SpecDtb /\ WF_<<pc, dtbvars>>(NextDtb)

(***************************************************************************)
(* The pages of the UEFI variant (loader_x86.c).  bsmem.live is what the   *)
(* boot services hold as allocated for the loader, each allocation with    *)
(* what it is for, the pass (bkp) that made it and a serial number; ptrs   *)
(* is the loader's table of the allocations it means to free, as the       *)
(* serial numbers.  plan is what the configuration asks of the two passes: *)
(* the kernel, the number of module lines, whether the modules are gzip    *)
(* compressed.                                                             *)
(***************************************************************************)
\* memalloc_t ptrs[64]
TableSize == 64
\* largest number of module lines of a pass
MaxLoads == TableSize + 1

\* BS->AllocatePages succeeds
AllocatePages(st, what, b) ==
    [st EXCEPT !.b.live = @ \cup {[what |-> what, pass |-> b,
                                   id |-> st.b.made + 1]},
               !.b.made = @ + 1]
\* efi_alloc: a page of its own, no record
efi_alloc(st, what, b) == AllocatePages(st, what, b)
\* efi_allocpages: ptrs[nptr] is written, nptr++; nothing asks whether
\* nptr has reached the size of the table
efi_allocpages(st, what, b) ==
    [AllocatePages(st, what, b) EXCEPT !.t = Append(@, st.b.made + 1)]
\* BS->FreePages of the allocations ids
FreePages(st, ids) ==
    [st EXCEPT !.b.live = {a \in @ : a.id \notin ids}]
Recorded(t) == {t[k] : k \in 1..Len(t)}
\* efi_freepages: hack_buf and every recorded allocation are freed, nptr = 0
efi_freepages(st) ==
    [st EXCEPT !.b.live = {a \in @ : a.what # "hack" /\ a.id \notin Recorded(st.t)},
               !.t = << >>]

\* fw_loadseg on UEFI: a segment above ram gets pages anywhere and is
\* mapped, fw_map taking the table pages not yet linked from efi_alloc;
\* one below gets the pages at its address
efi_loadseg(st, kind, b) ==
    IF kind = "high"
    THEN IF st.b.linked THEN efi_allocpages(st, "seg", b)
         ELSE [efi_alloc(efi_allocpages(st, "seg", b), "table", b)
                 EXCEPT !.b.linked = TRUE]
    ELSE efi_allocpages(st, "seg", b)

RECURSIVE efi_loadsegs(_, _, _)
efi_loadsegs(st, segs, b) ==
    IF segs = << >> THEN st
    ELSE efi_loadsegs(efi_loadseg(st, Head(segs), b), Tail(segs), b)

\* fw_loadsetup: if(!bkp && ST) the tag buffer is allocated
efi_setup ==
    /\ pc = "ef_setup"
    /\ \E st \in {[b |-> bsmem, t |-> ptrs]} :
          \E r \in {IF bkp = 0 THEN AllocatePages(st, "tags", bkp) ELSE st} :
             /\ bsmem' = r.b
             /\ ptrs' = r.t
    /\ pc' = "ef_kernel"
    /\ UNCHANGED <<fw, bkp, rq, key, nkeys, rd, rpc, kern, seg, mods, smp,
                   nagain, bsp, ap, mem, hist>>
    /\ UNCHANGED <<mapvars, loadvars, mbivars, cfgvars, acpivars, fatvars,
                   dtbvars>>

\* fw_loadkernel: efi_freepages, for Linux the zero page unless there is
\* one, the segments
efi_kernel ==
    /\ pc = "ef_kernel"
    /\ \E k \in {bsmem.plan.kernel[bkp + 1]} :
       \E st \in {efi_freepages([b |-> bsmem, t |-> ptrs])} :
       \E z \in {IF k.mode = "LIN" /\ ~st.b.zero
                 THEN [efi_alloc(st, "zero", bkp) EXCEPT !.b.zero = TRUE]
                 ELSE st} :
       \E r \in {efi_loadsegs(z, k.segs, bkp)} :
          /\ bsmem' = [r.b EXCEPT !.i = 0]
          /\ ptrs' = r.t
    /\ pc' = "ef_modules"
    /\ UNCHANGED <<fw, bkp, rq, key, nkeys, rd, rpc, kern, seg, mods, smp,
                   nagain, bsp, ap, mem, hist>>
    /\ UNCHANGED <<mapvars, loadvars, mbivars, cfgvars, acpivars, fatvars,
                   dtbvars>>

\* one module line of fw_loadmodules: a buffer for the file, before it one
\* for the inflated data if the file is compressed, and then nptr-- and the
\* file's buffer freed; key: fw_read sees a key press (primary pass)
efi_module ==
    /\ pc = "ef_modules"
    /\ rq = 0 /\ bsmem.i < bsmem.plan.nmod[bkp + 1]
    /\ Len(ptrs) <= TableSize
    /\ \E st \in {[b |-> bsmem, t |-> ptrs]} :
       \E u \in {IF bsmem.plan.gz THEN efi_allocpages(st, "unc", bkp)
                 ELSE st} :
       \E m \in {efi_allocpages(u, "mod", bkp)} :
       \E r \in {IF bsmem.plan.gz
                 THEN [FreePages(m, {m.t[Len(m.t)]})
                         EXCEPT !.t = SubSeq(@, 1, Len(@) - 1)]
                 ELSE m} :
          /\ bsmem' = [r.b EXCEPT !.i = @ + 1]
          /\ ptrs' = r.t
    /\ \E k \in BOOLEAN : rq' = IF k /\ bkp = 0 THEN 1 ELSE rq
    /\ UNCHANGED <<fw, pc, bkp, key, nkeys, rd, rpc, kern, seg, mods, smp,
                   nagain, bsp, ap, mem, hist>>
    /\ UNCHANGED <<mapvars, loadvars, mbivars, cfgvars, acpivars, fatvars,
                   dtbvars>>

\* the loop of fw_loadmodules ends
efi_modules_end ==
    /\ pc = "ef_modules"
    /\ ~(rq = 0 /\ bsmem.i < bsmem.plan.nmod[bkp + 1])
    /\ Len(ptrs) <= TableSize
    /\ pc' = "ef_after"
    /\ UNCHANGED <<fw, bkp, rq, key, nkeys, rd, rpc, kern, seg, mods, smp,
                   nagain, bsp, ap, mem, hist>>
    /\ UNCHANGED auxvars

\* if(!bkp && rq) { bkp++; rq = 0; goto again; }
efi_again ==
    /\ pc = "ef_after"
    /\ bkp = 0 /\ rq = 1
    /\ bkp' = 1
    /\ rq' = 0
    /\ pc' = "ef_setup"
    /\ UNCHANGED <<fw, key, nkeys, rd, rpc, kern, seg, mods, smp, nagain,
                   bsp, ap, mem, hist>>
    /\ UNCHANGED auxvars

\* fw_fini: efi_freeall frees hack_buf (the pool buffers are not pages),
\* then ExitBootServices
efi_fini ==
    /\ pc = "ef_after"
    /\ ~(bkp = 0 /\ rq = 1)
    /\ bsmem' = [bsmem EXCEPT !.live = {a \in @ : a.what # "hack"}]
    /\ pc' = "ef_handover"
    /\ UNCHANGED ptrs
    /\ UNCHANGED <<fw, bkp, rq, key, nkeys, rd, rpc, kern, seg, mods, smp,
                   nagain, bsp, ap, mem, hist>>
    /\ UNCHANGED <<mapvars, loadvars, mbivars, cfgvars, acpivars, fatvars,
                   dtbvars>>

\* the kernels of the model: Multiboot2 with segments below ram, above it
\* or both, and Linux
EfiKernels ==
    {[mode |-> "MB", segs |-> <<"low">>],
     [mode |-> "MB", segs |-> <<"low", "high">>],
     [mode |-> "MB", segs |-> <<"high", "high">>],
     [mode |-> "LIN", segs |-> <<"low">>]}
Plans ==
    [kernel : [1..2 -> EfiKernels],
     nmod : {<<1, 0>>, <<2, 1>>, <<MaxLoads, 1>>},
     gz : BOOLEAN]

\* fw_init: hack_buf and the 68 pages of the page tables are allocated,
\* nptr = 0
InitEfi ==
    /\ fw = "UEFI"
    /\ pc = "ef_setup"
    /\ mem = [sem |-> 0, alive |-> 0, wr |-> {}, mbi |-> "open"]
    /\ Cleared
    /\ MapInit
    /\ LoadIdle
    /\ MbiIdle
    /\ CfgIdle
    /\ AcpiIdle
    /\ FatIdle
    /\ DtbIdle
    /\ \E p \in Plans :
          bsmem = [live |-> {[what |-> "hack", pass |-> 0, id |-> 1],
                             [what |-> "pt", pass |-> 0, id |-> 2]},
                   made |-> 2, zero |-> FALSE, linked |-> FALSE, i |-> 0,
                   plan |-> p]
    /\ ptrs = << >>

NextEfi ==
    \/ efi_setup
    \/ efi_kernel
    \/ efi_module
    \/ efi_modules_end
    \/ efi_again
    \/ efi_fini

SpecEfi == InitEfi /\ [][NextEfi]_vars

(***************************************************************************)
(* The passes of the BIOS variant over its memory (loader_x86.c): segments *)
(* and modules take their room from file_buf, and so does fw_map for the   *)
(* tables it adds.  calls is the record of the pass: for every segment and *)
(* module the range it was read to, and for a mapped segment the range of  *)
(* the table pages bios_alloc gave to fw_map.                              *)
(***************************************************************************)
\* where the segments of the model below ram ask to be
LowAddrs == {MiB, 2 * MiB}
\* p_vaddr of the mapped segments, page aligned
HighAddrs == {HigherHalf, VAdd(HigherHalf, 4 * PAGE)}

\* fw_loadsetup: if(!ST) { mod_buf = 0; file_buf = 0x100000; }
bump_setup ==
    /\ pc = "bp_setup"
    /\ file_buf' = MiB
    /\ calls' = << >>
    /\ pc' = "bp_segs"
    /\ UNCHANGED <<fw, bkp, rq, key, nkeys, rd, rpc, kern, seg, mods, smp,
                   nagain, bsp, ap, mem, hist>>
    /\ UNCHANGED <<ptm, heap>>
    /\ UNCHANGED restMap

\* fw_loadseg for a segment above ram: fw_map(file_buf, vaddr, size), then
\* buf = file_buf; file_buf += size
bump_high(virt, size) ==
    \E r \in {fw_map("BIOS", [m |-> ptm, fb |-> file_buf, hp |-> heap],
                     file_buf, virt, size)} :
       /\ ptm' = r.m
       /\ file_buf' = r.fb + size
       /\ calls' = Append(calls, [kind |-> "high", virt |-> virt,
                                  lo |-> r.fb, hi |-> r.fb + size,
                                  tlo |-> file_buf, thi |-> r.fb])

\* fw_loadseg for a segment below ram: it is read to vaddr, and file_buf is
\* moved up to its end if it is below that (memmap holds no entry that
\* refuses it)
bump_low(vaddr, size) ==
    /\ file_buf' = (IF file_buf < PageUp(vaddr + size)
                    THEN PageUp(vaddr + size) ELSE file_buf)
    /\ calls' = Append(calls, [kind |-> "low", virt |-> ToV(vaddr),
                               lo |-> vaddr, hi |-> vaddr + size,
                               tlo |-> 0, thi |-> 0])
    /\ UNCHANGED ptm

\* one turn of the segment loop of fw_loadkernel; fw_read may see a key
\* press in the primary pass
bump_seg ==
    /\ pc = "bp_segs"
    /\ rq = 0 /\ Len(calls) < MaxMaps
    /\ \E np \in 1..MaxPages :
          \/ \E v \in HighAddrs : bump_high(v, np * PAGE)
          \/ \E a \in LowAddrs : bump_low(a, np * PAGE)
    /\ \E k \in BOOLEAN : rq' = IF k /\ bkp = 0 THEN 1 ELSE rq
    /\ UNCHANGED <<fw, pc, bkp, key, nkeys, rd, rpc, kern, seg, mods, smp,
                   nagain, bsp, ap, mem, hist>>
    /\ UNCHANGED heap
    /\ UNCHANGED restMap

\* fw_loadkernel returns and fw_loadmodules loads the one module of the
\* model, if there is one and no key has been seen: mod_buf = file_buf;
\* file_buf += (file_size + 4095) & ~4095
bump_modules ==
    /\ pc = "bp_segs"
    /\ \E n \in 0..1 :
          IF n = 1 /\ rq = 0
          THEN /\ calls' = Append(calls, [kind |-> "module", virt |-> ToV(0),
                                          lo |-> file_buf,
                                          hi |-> file_buf + PAGE,
                                          tlo |-> 0, thi |-> 0])
               /\ file_buf' = file_buf + PAGE
               /\ \E k \in BOOLEAN : rq' = IF k /\ bkp = 0 THEN 1 ELSE rq
          ELSE UNCHANGED <<calls, file_buf, rq>>
    /\ pc' = "bp_after"
    /\ UNCHANGED <<fw, bkp, key, nkeys, rd, rpc, kern, seg, mods, smp,
                   nagain, bsp, ap, mem, hist>>
    /\ UNCHANGED <<ptm, heap>>
    /\ UNCHANGED restMap

\* if(!bkp && rq) { bkp++; rq = 0; goto again; }
bump_again ==
    /\ pc = "bp_after"
    /\ bkp = 0 /\ rq = 1
    /\ bkp' = 1
    /\ rq' = 0
    /\ pc' = "bp_setup"
    /\ UNCHANGED <<fw, key, nkeys, rd, rpc, kern, seg, mods, smp, nagain,
                   bsp, ap, mem, hist>>
    /\ UNCHANGED auxvars

\* fw_fini and the handover
bump_fini ==
    /\ pc = "bp_after"
    /\ ~(bkp = 0 /\ rq = 1)
    /\ pc' = "bp_handover"
    /\ UNCHANGED <<fw, bkp, rq, key, nkeys, rd, rpc, kern, seg, mods, smp,
                   nagain, bsp, ap, mem, hist>>
    /\ UNCHANGED auxvars

\* the state fw_init leaves: the tables of bios_pagetables, file_buf at
\* 1 MiB
InitBump ==
    /\ fw = "BIOS"
    /\ pc = "bp_setup"
    /\ mem = [sem |-> 0, alive |-> 0, wr |-> {}, mbi |-> "open"]
    /\ Cleared
    /\ MapInit
    /\ LoadIdle
    /\ MbiIdle
    /\ CfgIdle
    /\ AcpiIdle
    /\ FatIdle
    /\ DtbIdle
    /\ EfiIdle

NextBump ==
    \/ bump_setup
    \/ bump_seg
    \/ bump_modules
    \/ bump_again
    \/ bump_fini

SpecBump == InitBump /\ [][NextBump]_vars

(***************************************************************************)
(* Properties                                                              *)
(***************************************************************************)
\* positions of _start from the call of fw_fini to the jump into the kernel
FiniOn == {"fini", "smp_sipi", "smp_poll", "smp_count", "entry", "handover",
           "jump", "kernel"}

C2_ErrBackup ==
    [][/\ (pc = "err" /\ bkp # 0 /\ pc' # pc)
            => pc' = (IF fw = "UEFI" THEN "returned" ELSE "parked")
       /\ (pc \in {"parked", "returned"} => pc' = pc)
       /\ (pc' = "parked" => fw # "UEFI")]_vars

\* C2 witness: the CPU parked after a fatal error of the backup pass
C2_Witness == pc = "parked" /\ bkp = 1 /\ nagain = 1

\* C2 (as stated): on every variant a fatal error in backup mode parks the CPU
C2_Stated ==
    [][(pc = "err" /\ bkp # 0 /\ pc' # pc) => pc' = "parked"]_vars

C4_ReadAborted ==
    (pc = "read" /\ bkp = 0 /\ rd.keyed) => (rd.after = 0 /\ rd.got < rd.req)

\* C5: for every AP the BSP polls the alive byte for at most 250 ms after the
\* first SIPI
C5_BoundedWait == bsp.waited <= PollBudget

\* C6: until the BSP has stored the kernel entry into the semaphore, no AP
\* has left its spin loop for the kernel, no AP has stored to shared memory
\* other than the alive byte, and the semaphore is zero while an AP runs
C6_ApsHeld ==
    ~hist.pub =>
        /\ \A i \in APs : ap[i].st # "kernel"
        /\ hist.apw \subseteq {ALIVE}
        /\ (\E i \in APs : ap[i].st # "wfs") => mem.sem = 0

\* the APs that have responded to their SIPI (run the trampoline)
Responded == {i \in APs : ap[i].st # "wfs"}

\* C7: after the SMP start, running <= numcores, running is the BSP plus
\* exactly the APs that responded: none that responded is left uncounted,
\* none that did not respond is counted
C7_RunningExact ==
    (fw \in X86 /\ bsp.done) =>
        /\ bsp.running <= bsp.numcores
        /\ bsp.running = 1 + Cardinality(bsp.counted)
        /\ bsp.counted = Responded

PageOffsets(c) == {d \in 0..(c.size - 1) : d % 2048 = 0} \cup {c.size - 1}

\* the page in which byte v = virt + d of the range is to be found: the
\* page of the buffer that lies as many pages after its first one as the
\* page of v lies after the page of virt
ExpectedPage(c, d) ==
    (c.buf - (c.buf % PAGE)) + PAGE * (((c.virt.low % PAGE) + d) \div PAGE)

\* C9: after a successful map(phys, virt, size) every v in [virt, virt + size)
\* translates to the 4 KiB physical page of the buffer that holds phys + (v - virt)
C9_MapTranslates ==
    \A k \in 1..Len(calls) :
        (k = Len(calls) /\ calls[k].ret = 1) =>
            \A d \in PageOffsets(calls[k]) :
                resolve(fw, ptm, VAdd(calls[k].virt, d)) = ExpectedPage(calls[k], d)

\* the pages [virt, virt + size) of two calls have a 4 KiB page in common
Overlap(c1, c2) ==
    \E d1 \in PageOffsets(c1), d2 \in PageOffsets(c2) :
        VPage(VAdd(c1.virt, d1)) = VPage(VAdd(c2.virt, d2))

\* C10: a map call whose range has a 4 KiB page in common with the range
\* of an earlier successful map call returns 0 and leaves the translations
\* of the earlier ranges as they were
C10_OverlapRefused ==
    \A j \in 1..Len(calls) :
        (\E i \in 1..(j - 1) : calls[i].ret = 1 /\ Overlap(calls[i], calls[j]))
            => /\ calls[j].ret = 0
               /\ j = Len(calls) =>
                     \A i \in 1..(j - 1) : \A d \in PageOffsets(calls[i]) :
                         resolve(fw, ptm, VAdd(calls[i].virt, d))
                             = resolve(fw, calls[j].pre, VAdd(calls[i].virt, d))

\* the Multiboot2 memory map the kernel is given: the loader's memmap, on
\* UEFI the firmware's map as efi_memmap converts and sorts it
MbMap == IF fw = "UEFI" THEN sort_map(MbEntries(fw, fwmap), 2, 0).map
         ELSE memmap
Available == {MbMap[i] : i \in {k \in 1..Len(MbMap) : MbMap[k].type = "AVAILABLE"}}

\* the page-rounded target range of a segment
TargetLo(vaddr) == PageDown(vaddr)
TargetHi(vaddr, memsz) ==
    PageDown(vaddr) + PageDown(memsz + (vaddr % PAGE) + PAGE - 1)
\* the target range lies entirely inside one Available entry
Fits(vaddr, memsz) ==
    \E e \in Available : /\ e.base_addr <= TargetLo(vaddr)
                         /\ TargetHi(vaddr, memsz) <= e.base_addr + e.length

\* C11: a segment at or below the top of RAM is loaded only if its
\* page-rounded target range lies inside one Available entry of the memory
\* map; in every other case fw_loadseg fails and writes nothing
C11_LoadChecksMap ==
    \A i \in 1..Len(ldlog) :
        ldlog[i].vaddr <= ram =>
            /\ ldlog[i].ret = 1 => Fits(ldlog[i].vaddr, ldlog[i].memsz)
            /\ ~Fits(ldlog[i].vaddr, ldlog[i].memsz) =>
                   ldlog[i].ret = 0 /\ ~ldlog[i].wrote

\* the memory the loader occupies or uses, from the memory layout of
\* loader_x86.c (BIOS: paging tables up to the Linux zero page) and of
\* loader_rpi.c (stack up to _bss_end)
LoaderMem(f) ==
    CASE f = "BIOS" -> {[lo |-> 4096, hi |-> 630784]}
      [] f = "RPI" -> {[lo |-> 1024, hi |-> _bss_end]}
      [] f = "CB" -> {[lo |-> 4096, hi |-> LoaderData], CbImage}
      [] OTHER -> {}

\* C12: a segment whose vaddr falls in memory the loader occupies or uses
\* is refused, and nothing is written
C12_LoaderRefused ==
    \A i \in 1..Len(ldlog) :
        (\E r \in LoaderMem(fw) : r.lo <= ldlog[i].vaddr /\ ldlog[i].vaddr < r.hi)
            => ldlog[i].ret = 0 /\ ~ldlog[i].wrote

\* the segments of the kernel file all lie inside an Available range and
\* do not overlap the loader
Loadable ==
    \A i \in 1..Len(kfile.segs) :
        LET v == SegAddr(kfile, kfile.segs[i])
            n == kfile.segs[i].memsz
        IN  /\ Fits(v, n)
            /\ \A r \in LoaderMem(fw) :
                  ~(r.lo < TargetHi(v, n) /\ TargetLo(v) < r.hi)

\* C13: when fw_loadkernel is through with an ELF or PE kernel whose
\* segments are all loadable, it has succeeded, every segment is loaded and
\* the entry point is e_entry, for PE entry_point + image_base
C13_KernelLoaded ==
    (pc \in {"ld_ret", "ld_err"} /\ Loadable) =>
        /\ pc = "ld_ret"
        /\ \A i \in 1..Len(kfile.segs) :
              /\ i <= Len(ldlog)
              /\ ldlog[i].ret = 1
              /\ ldlog[i].wrote
        /\ kernel_entry = (IF kfile.fmt = "PE" THEN kfile.entry + kfile.img_base
                           ELSE kfile.entry)

\* C18: once the memory map has been obtained, ram is the largest
\* base + length over the Available entries, rounded down to 2 MiB
C18_TopOfRam ==
    pc \in {"ld_open", "ld_segs", "ld_ret", "ld_err", "err"} =>
        ram = Round2M(Max({0} \cup {e.base_addr + e.length : e \in Available}))


\* n rounded up to a multiple of 8
Up8(n) == ((n + 7) \div 8) * 8

\* the offset of the first tag of type 0 met when the list at tb is walked
\* from offset off by the rounded sizes; -1 if a tag is met that is not
\* 8-aligned or whose type or size was never stored
RECURSIVE TagWalk(_, _, _, _)
TagWalk(m, tb, off, fuel) ==
    IF fuel = 0 \/ off % 8 # 0 \/ (tb + off) % 8 # 0
       \/ Rdw(m, tb + off) = Garbage \/ Rdw(m, tb + off + 4) < 8
    THEN -1
    ELSE IF Rdw(m, tb + off) = MULTIBOOT_TAG_TYPE_END THEN off
    ELSE TagWalk(m, tb, off + Up8(Rdw(m, tb + off + 4)), fuel - 1)

\* C14: at every Multiboot2 handover with a tag list, the walk from offset 8
\* by the rounded tag sizes meets only 8-aligned tags, reaches a tag of type
\* 0, and total_size is the offset of that tag plus 8, so that it is the
\* only one and the last; in the primary and in the backup pass
C14_TagsWellFormed ==
    (pc = "mb_handover" /\ kern.mode \in {"MB32", "MB64"} /\ tags_buf # 0) =>
        \E e \in {TagWalk(tagmem, tags_buf, 8, 13 + MaxMods)} :
            /\ e >= 8
            /\ Rdw(tagmem, tags_buf + e + 4) = 8
            /\ Rdw(tagmem, tags_buf) = e + 8

\* a backup pass hands a list with a command line, a module, the ACPI,
\* SMBIOS, memory map, framebuffer, EDID and SMP tags to a Multiboot2 kernel
C14_Witness ==
    /\ pc = "mb_handover"
    /\ bkp = 1
    /\ kern.mode = "MB64"
    /\ tags_buf # 0
    /\ Len(modlist) >= 1
    /\ initrd # 0
    /\ smp = 1
    /\ hw.edid > 0 /\ hw.acpi = "new" /\ hw.smbios > 0 /\ hw.nmap > 0
    /\ Rdw(tagmem, tags_buf) > 200

\* C19: at a Linux handover the ramdisk fields of the zero page are the
\* start and the size of the first module loaded in the pass that hands
\* over, and zero if that pass loaded no module
C19_Ramdisk ==
    (pc = "mb_handover" /\ kern.mode = "LIN" /\ zero_page.at # 0) =>
        IF modlist # << >>
        THEN /\ zero_page.ramdisk_image = modlist[1].start
             /\ zero_page.ramdisk_size = modlist[1].end - modlist[1].start
        ELSE /\ zero_page.ramdisk_image = 0
             /\ zero_page.ramdisk_size = 0

\* the directive of a backup line, written with or without a space behind
\* the prefix, as a line of its own
Directive(ln) ==
    IF Len(ln.cmd) > 1 THEN [cmd |-> Tail(ln.cmd), args |-> ln.args]
    ELSE [cmd |-> <<ln.args[1]>>, args |-> Tail(ln.args)]

\* the lines that count in mode b, without their prefix
RECURSIVE Active(_, _)
Active(b, c) ==
    IF c = << >> THEN << >>
    ELSE IF (b = 1) # IsBackup(Head(c)) THEN Active(b, Tail(c))
    ELSE IF b = 1 THEN <<Directive(Head(c))>> \o Active(b, Tail(c))
    ELSE <<Head(c)>> \o Active(b, Tail(c))

\* what a primary pass over the text c gives, modules included
Primary(c) ==
    [LoadConfig(0, c, CfgCleared) EXCEPT !.mods = ModuleLoop(0, c, 1, 0, << >>)]

\* C16: the pass that boots has applied the lines of its mode, and only
\* those: a backup pass gives what a primary pass gives over the backup
\* lines written without their prefix, a primary pass what it gives over
\* the text without the backup lines; kernel, options and modules alike
C16_BackupPrefix ==
    (pc = "cf_done" /\ rq = 0) => parsed = Primary(Active(bkp, conf))

\* the text up to, not including, the second menuentry line of mode b
RECURSIVE Entry(_, _, _, _)
Entry(b, c, i, n) ==
    IF i > Len(c) THEN c
    ELSE IF ~Skipped(b, c[i]) /\ c[i].args # << >>
            /\ Is(Rest(b, c[i]), "menuentry")
    THEN IF n >= 1 THEN SubSeq(c, 1, i - 1) ELSE Entry(b, c, i + 1, n + 1)
    ELSE Entry(b, c, i + 1, n)

\* what the pass in mode b starts from
Before(b, c) == IF b = 0 THEN CfgCleared ELSE LoadConfig(0, c, CfgCleared)

\* C17: the pass that boots gives what it gives over the text cut before
\* the second menuentry line: kernel, options and modules
C17_FirstEntryOnly ==
    (pc = "cf_done" /\ rq = 0) =>
        parsed = [LoadConfig(bkp, Entry(bkp, conf, 1, 0), Before(bkp, conf))
                    EXCEPT !.mods = ModuleLoop(bkp, Entry(bkp, conf, 1, 0),
                                               1, 0, << >>)]

\* C20: after the patch the bytes of the FADT sum to 0 modulo 256, dsdt is
\* the replacement pointer, and so is x_dsdt in a table of revision 2 or
\* later that is long enough to hold the field
C20_FadtPatched ==
    (pc = "ac_done" /\ dsdt_ptr # 0) =>
        /\ TableSum(fadt) = 0
        /\ fadt.dsdt = dsdt_ptr
        /\ (fadt.rev >= 2 /\ fadt.size >= SizeofFadt) => fadt.x_dsdt = dsdt_ptr

\* the bytes of the file on the volume, as pieces: the sectors of its
\* clusters in chain order, cluster 2 being the first of the data area,
\* up to size bytes
RECURSIVE FileBytes(_, _, _)
FileBytes(v, k, left) ==
    IF left <= 0 THEN << >>
    ELSE <<[lba |-> DataStart + (v.chain[(k \div v.spc) + 1] - 2) * v.spc
                      + (k % v.spc),
            from |-> 0,
            len |-> IF left < SectorSize THEN left ELSE SectorSize]>>
         \o FileBytes(v, k + 1, left - SectorSize)

C25_BackupStartsClean ==
    (pc = "config" /\ bkp = 1) => rq = 0

RECURSIVE Walk(_, _, _, _, _, _)
Walk(m, h, p, d, c, val) ==
    IF p + 4 > h.off_dt + h.siz_dt THEN [ok |-> FALSE, val |-> val]
    ELSE IF Word(m, p) = FDT_END
         THEN [ok |-> d = 0 /\ p + 4 = h.off_dt + h.siz_dt, val |-> val]
    ELSE IF Word(m, p) = FDT_BEGIN_NODE
         THEN Walk(m, h, Up4(NameEnd(m, p + 4, h.off_dt + h.siz_dt) + 1),
                   d + 1,
                   d = 1 /\ Sub(m, p + 4, 7) = chosen, val)
    ELSE IF Word(m, p) = FDT_END_NODE
         THEN IF d = 0 THEN [ok |-> FALSE, val |-> val]
              ELSE Walk(m, h, p + 4, d - 1, FALSE, val)
    ELSE IF Word(m, p) = FDT_PROP
         THEN IF p + 12 + Word(m, p + 4) > h.off_dt + h.siz_dt
              THEN [ok |-> FALSE, val |-> val]
              ELSE Walk(m, h, Up4(p + 12 + Word(m, p + 4)), d, c,
                        IF /\ c
                           /\ Word(m, p + 8) + 9 <= h.siz_str
                           /\ Sub(m, h.off_str + Word(m, p + 8), 9) = bootargs
                        THEN Sub(m, p + 12, Word(m, p + 4))
                        ELSE val)
    ELSE [ok |-> FALSE, val |-> val]
\* the patched blob read by its header
Parsed(m) ==
    IF /\ Hdr(m).off_dt + Hdr(m).siz_dt <= Hdr(m).off_str
       /\ Hdr(m).off_str + Hdr(m).siz_str <= Hdr(m).totalsize
    THEN Walk(m, Hdr(m), Hdr(m).off_dt, 0, FALSE, << >>)
    ELSE [ok |-> FALSE, val |-> << >>]

\* C21: once the patch is done, the blob read by its header is a tree
\* whose bootargs of chosen is the command line and its terminator
C21_BootargsPatched ==
    pc = "dt_done" =>
        /\ Parsed(dtb).ok
        /\ Parsed(dtb).val = dt.cmdline \o <<0>>

RECURSIVE KernelLine(_, _, _, _, _)
KernelLine(b, c, i, m, last) ==
    IF i > Len(c) THEN last
    ELSE IF Skipped(b, c[i]) \/ c[i].args = << >>
    THEN KernelLine(b, c, i + 1, m, last)
    ELSE IF Is(Rest(b, c[i]), "menuentry")
    THEN IF m >= 1 THEN last ELSE KernelLine(b, c, i + 1, m + 1, last)
    ELSE IF Is(Rest(b, c[i]), "kernel")
    THEN KernelLine(b, c, i + 1, m, c[i].args)
    ELSE KernelLine(b, c, i + 1, m, last)

\* C29: in a backup pass the command line is the one the backup kernel
\* line gives, and there is none where that line gives none or is missing
C29_BackupCmdline ==
    (bkp = 1 /\ pc \in {"cf_modules", "cf_done"}) =>
        parsed.cmdline =
            (IF Len(KernelLine(1, conf, 1, 0, << >>)) > 1
             THEN KernelLine(1, conf, 1, 0, << >>)[2]
             ELSE "")

\* C22: the Linux image of the Raspberry Pi is read whole to 0x80000
C22_LinuxAt80000 ==
    (kfile.fmt = "LIN" /\ Len(ldlog) = 1) =>
        /\ ldlog[1].ret = 1
        /\ ldlog[1].wrote
        /\ ldlog[1].buf = LinuxBase

\* the allocation a goes to the kernel: the tag buffer and the page tables,
\* what the pass that boots has loaded and mapped, the zero page of a Linux
\* kernel
Handed(a) ==
    \/ a.what \in {"tags", "pt"}
    \/ a.what \in {"seg", "mod", "unc", "table"} /\ a.pass = bkp
    \/ a.what = "zero" /\ bsmem.plan.kernel[bkp + 1].mode = "LIN"

\* C23: the table never holds more than its 64 entries, and at the
\* handover nothing is allocated but what goes to the kernel
C23_PagesTracked ==
    /\ Len(ptrs) <= TableSize
    /\ pc = "ef_handover" => \A a \in bsmem.live : Handed(a)

\* the bytes of the file from offset offs on, n of them, as pieces
FileFrom(v, offs, n) ==
    <<[lba |-> DataStart
                + (v.chain[(offs \div (v.spc * SectorSize)) + 1] - 2) * v.spc
                + ((offs \div SectorSize) % v.spc),
       from |-> offs % SectorSize,
       len |-> IF n < SectorSize - (offs % SectorSize) THEN n
               ELSE SectorSize - (offs % SectorSize)]>>
    \o FileBytes(v, (offs \div SectorSize) + 1,
                 n - (SectorSize - (offs % SectorSize)))

\* C24: a read from an offset inside the file, with no key press, returns
\* the number of bytes from there to the end of the request or of the
\* file and leaves those bytes of the file, in order, in the buffer
C24_ReadFromOffset ==
    (pc = "ft_ret" /\ rq = 0) =>
        /\ fr.ret = fr.size
        /\ fr.buf = FileFrom(vol, fr.offs, fr.size)

\* the ranges [a.lo, a.hi) and [b.lo, b.hi) have a byte in common
Meet(alo, ahi, blo, bhi) == alo < bhi /\ blo < ahi

\* what the pass has put into memory lies apart: segments from each other
\* (two segments below ram ask for their addresses themselves and are not
\* compared), from the module and from the table pages
PassDisjoint ==
    \A i, j \in 1..Len(calls) :
        /\ (i < j /\ ~(calls[i].kind = "low" /\ calls[j].kind = "low"))
              => ~Meet(calls[i].lo, calls[i].hi, calls[j].lo, calls[j].hi)
        /\ ~Meet(calls[i].tlo, calls[i].thi, calls[j].lo, calls[j].hi)
        /\ i < j => ~Meet(calls[i].tlo, calls[i].thi,
                             calls[j].tlo, calls[j].thi)

\* C28: within a pass the segments, the table pages fw_map took and the
\* module are pairwise disjoint, whatever the order of the segments
C28_PassDisjoint == PassDisjoint

\* the mapped segments of the pass ask for different addresses
HighApart ==
    \A i, j \in 1..Len(calls) :
        (i < j /\ calls[i].kind = "high" /\ calls[j].kind = "high")
            => calls[i].virt # calls[j].virt

\* C27: at the handover of a backup pass every page of a mapped segment
\* resolves to the page the pass read it to, and no table page that is
\* linked lies in a range the pass has read a segment or a module to
C27_BackupMapClean ==
    (pc = "bp_handover" /\ bkp = 1 /\ PassDisjoint /\ HighApart) =>
        /\ \A i \in 1..Len(calls) :
              calls[i].kind = "high" =>
                 \A k \in 0..(((calls[i].hi - calls[i].lo) \div PAGE) - 1) :
                    resolve("BIOS", ptm, VAdd(calls[i].virt, k * PAGE))
                        = calls[i].lo + k * PAGE
        /\ \A a \in DOMAIN ptm :
              a >= MiB =>
                 \A i \in 1..Len(calls) : ~(calls[i].lo <= a /\ a < calls[i].hi)

====
